---------------------------- MODULE Spec2Model ----------------------------
(***************************************************************************)
(* Image analysis pipeline of summarizer/ocr_utils.py: content             *)
(* classification, variant generation, the multi-configuration OCR search, *)
(* text-quality scoring, summary composition and the orchestrator          *)
(* extract_text_from_image with its failure-recovery path.                 *)
(*                                                                         *)
(* Numbers.  Densities are kept in thousandths (0.15 is 150), scores and   *)
(* confidences as exact fractions [n, d] in lowest terms, texts as tuples  *)
(* of one-character strings.                                               *)
(***************************************************************************)
EXTENDS Integers, Sequences, FiniteSets, TLC

(***************************************************************************)
(* Exact fractions                                                         *)
(***************************************************************************)
RECURSIVE GCD(_, _)
GCD(a, b) ==
    IF b = 0 THEN a ELSE GCD(b, a % b)

Frac(n, d) ==
    IF n = 0 THEN [n |-> 0, d |-> 1]
    ELSE LET g == GCD(n, d) IN [n |-> n \div g, d |-> d \div g]

FracGT(x, y) ==
    x.n * y.d > y.n * x.d

FracGE(x, y) ==
    x.n * y.d >= y.n * x.d

FracLE(x, y) ==
    x.n * y.d <= y.n * x.d

Zero ==
    Frac(0, 1)

One ==
    Frac(1, 1)

Min(a, b) ==
    IF a < b THEN a ELSE b

(***************************************************************************)
(* Characters and texts                                                    *)
(***************************************************************************)
Letters ==
    {"a", "b", "c", "d", "e", "f", "g", "h", "i", "o", "t", "x"}

Digits ==
    {"1", "2"}

\* mutant of Spaces: a line break is not whitespace
SpacesBlankOnly ==
    {" "}

Spaces ==
    {" ", "\n"}

Terminators ==
    {".", "!", "?"}

\* mutant of AllowedPunct: the terminators are missing from the character class
AllowedPunctWithoutTerminators ==
    {",", ";", ":", "-", "(", ")", "[", "]", "{", "}"}

AllowedPunct ==
    Terminators \cup {",", ";", ":", "-", "(", ")", "[", "]", "{", "}"}

IsWordChar(c) ==
    c \in Letters \cup Digits \cup {"_"}

\* str.strip(): drop leading and trailing whitespace
RECURSIVE LStrip(_)
LStrip(t) ==
    IF t # <<>> /\ Head(t) \in Spaces THEN LStrip(Tail(t)) ELSE t

RECURSIVE RStrip(_)
RStrip(t) ==
    IF t # <<>> /\ t[Len(t)] \in Spaces THEN RStrip(SubSeq(t, 1, Len(t) - 1)) ELSE t

Strip(t) ==
    RStrip(LStrip(t))

\* str.split(): the maximal runs of non-whitespace characters, in order
Split(t) ==
    LET starts == {i \in 1..Len(t) :
                      t[i] \notin Spaces /\ (i = 1 \/ t[i - 1] \in Spaces)}
        ends == {i \in 1..Len(t) :
                    t[i] \notin Spaces /\ (i = Len(t) \/ t[i + 1] \in Spaces)}
        Nth(S, n) == CHOOSE i \in S : Cardinality({j \in S : j <= i}) = n
    IN IF starts = {} THEN <<>>
       ELSE [n \in 1..Cardinality(starts) |->
                SubSeq(t, Nth(starts, n), Nth(ends, n))]

\* mutant of SumLen: the separators are counted with the words
RECURSIVE SumLenWithSeparators(_)
SumLenWithSeparators(ws) ==
    IF ws = <<>> THEN 0 ELSE Len(Head(ws)) + 1 + SumLenWithSeparators(Tail(ws))

RECURSIVE SumLen(_)
SumLen(ws) ==
    IF ws = <<>> THEN 0 ELSE Len(Head(ws)) + SumLen(Tail(ws))

\* re.findall(r'[^\w\s\.\,\!\?\;\:\-\(\)\[\]\{\}]', t): unusual characters
UnusualCount(t) ==
    Cardinality({i \in 1..Len(t) :
        ~IsWordChar(t[i]) /\ t[i] \notin Spaces /\ t[i] \notin AllowedPunct})

\* \b before position i / after position i of t
BoundaryBefore(t, i) ==
    IsWordChar(t[i]) /\ (i = 1 \/ ~IsWordChar(t[i - 1]))

BoundaryAfter(t, i) ==
    IsWordChar(t[i]) /\ (i = Len(t) \/ ~IsWordChar(t[i + 1]))

\* re.findall(r'\b[a-zA-Z]{1}\b', t): single letters
SingleLetterCount(t) ==
    Cardinality({i \in 1..Len(t) :
        t[i] \in Letters /\ BoundaryBefore(t, i) /\ BoundaryAfter(t, i)})

\* re.findall(r'\b[a-zA-Z]{20,}\b', t): very long words
LongWordCount(t) ==
    Cardinality({i \in 1..Len(t) :
        /\ BoundaryBefore(t, i)
        /\ \E j \in i..Len(t) :
              /\ j - i + 1 >= 20
              /\ \A k \in i..j : t[k] \in Letters
              /\ BoundaryAfter(t, j)})

\* len(re.split(r'[.!?]+', t)): one more than the number of terminator runs
SentenceCount(t) ==
    1 + Cardinality({i \in 1..Len(t) :
        t[i] \in Terminators /\ (i = 1 \/ t[i - 1] \notin Terminators)})

\* mutant of calculate_text_quality: the artifact penalty is capped at 1.0
TextQualityPenaltyUncapped(text) ==
    LET clean_text == Strip(text)
        words == Split(clean_text)
        word_count == Len(words)
        total_len == SumLen(words)
        matches == UnusualCount(clean_text) + SingleLetterCount(clean_text)
                     + LongWordCount(clean_text)
        sentence_count == SentenceCount(clean_text)
        base == 3 * Min(word_count, 10) * 4 * word_count * sentence_count
                  + Min(total_len, 8 * word_count) * 10 * sentence_count
                  + Min(word_count, 20 * sentence_count) * 4 * word_count
        keep == 2 * word_count - Min(2 * matches, 2 * word_count)
        score == Frac(base * keep, 800 * word_count * word_count * sentence_count)
    IN IF text = <<>> \/ clean_text = <<>> THEN Zero
       ELSE IF word_count = 0 THEN Zero
       ELSE IF FracGT(score, One) THEN One
       ELSE score

\* mutant of calculate_text_quality: the three weights are 0.6, 0.2 and 0.2
TextQualityWeightsSumToOne(text) ==
    LET clean_text == Strip(text)
        words == Split(clean_text)
        word_count == Len(words)
        total_len == SumLen(words)
        matches == UnusualCount(clean_text) + SingleLetterCount(clean_text)
                     + LongWordCount(clean_text)
        sentence_count == SentenceCount(clean_text)
        base == 6 * Min(word_count, 10) * 4 * word_count * sentence_count
                  + Min(total_len, 8 * word_count) * 10 * sentence_count
                  + Min(word_count, 20 * sentence_count) * 4 * word_count
        keep == 2 * word_count - Min(2 * matches, word_count)
        score == Frac(base * keep, 800 * word_count * word_count * sentence_count)
    IN IF text = <<>> \/ clean_text = <<>> THEN Zero
       ELSE IF word_count = 0 THEN Zero
       ELSE IF FracGT(score, One) THEN One
       ELSE score

\* calculate_text_quality(text)
calculate_text_quality(text) ==
    LET clean_text == Strip(text)
        words == Split(clean_text)
        word_count == Len(words)
        total_len == SumLen(words)
        matches == UnusualCount(clean_text) + SingleLetterCount(clean_text)
                     + LongWordCount(clean_text)
        sentence_count == SentenceCount(clean_text)
        \* word_score = min(wc/10, 1), length_score = min(avg_len/8, 1),
        \* sentence_score = min(avg_sentence_len/20, 1), over 40*wc*sc
        base == 3 * Min(word_count, 10) * 4 * word_count * sentence_count
                  + Min(total_len, 8 * word_count) * 10 * sentence_count
                  + Min(word_count, 20 * sentence_count) * 4 * word_count
        \* 1 - artifact_penalty = 1 - min(matches/wc, 0.5), over 2*wc
        keep == 2 * word_count - Min(2 * matches, word_count)
        score == Frac(base * keep, 800 * word_count * word_count * sentence_count)
    IN IF text = <<>> \/ clean_text = <<>> THEN Zero
       ELSE IF word_count = 0 THEN Zero
       ELSE IF FracGT(score, One) THEN One
       ELSE score

(***************************************************************************)
(* Values                                                                  *)
(***************************************************************************)
\* Python's None in a slot that otherwise holds a dict, and in one that
\* otherwise holds a str
None ==
    [none |-> TRUE]

NoneStr ==
    "None"

\* T(...) texts are tuples of characters; '' is <<>>
EmptyText ==
    <<>>

WordCount(text) ==
    Len(Split(text))

(***************************************************************************)
(* classify_image_content                                                  *)
(***************************************************************************)
\* mutant of DetermineImageType: the first rule tests the edge density alone
DetermineImageTypeEdgeOnly(edge_density, text_density, aspect_ratio) ==
    IF edge_density > 150
    THEN <<"technical_diagram", Frac(8, 10)>>
    ELSE IF text_density > 10
    THEN <<"document", Frac(9, 10)>>
    ELSE IF edge_density > 100
    THEN <<"diagram", Frac(7, 10)>>
    ELSE IF FracGT(aspect_ratio, Frac(2, 1)) \/ FracGT(Frac(1, 2), aspect_ratio)
    THEN <<"banner_or_poster", Frac(6, 10)>>
    ELSE <<"general", Frac(5, 10)>>

\* mutant of DetermineImageType: the first rule compares with >=
DetermineImageTypeInclusive(edge_density, text_density, aspect_ratio) ==
    IF edge_density >= 150 /\ text_density < 5
    THEN <<"technical_diagram", Frac(8, 10)>>
    ELSE IF text_density > 10
    THEN <<"document", Frac(9, 10)>>
    ELSE IF edge_density > 100
    THEN <<"diagram", Frac(7, 10)>>
    ELSE IF FracGT(aspect_ratio, Frac(2, 1)) \/ FracGT(Frac(1, 2), aspect_ratio)
    THEN <<"banner_or_poster", Frac(6, 10)>>
    ELSE <<"general", Frac(5, 10)>>

\* the if/elif cascade over edge_density, text_density (thousandths) and
\* aspect_ratio (a fraction); returns <<image_type, confidence>>
DetermineImageType(edge_density, text_density, aspect_ratio) ==
    IF edge_density > 150 /\ text_density < 5
    THEN <<"technical_diagram", Frac(8, 10)>>
    ELSE IF text_density > 10
    THEN <<"document", Frac(9, 10)>>
    ELSE IF edge_density > 100
    THEN <<"diagram", Frac(7, 10)>>
    ELSE IF FracGT(aspect_ratio, Frac(2, 1)) \/ FracGT(Frac(1, 2), aspect_ratio)
    THEN <<"banner_or_poster", Frac(6, 10)>>
    ELSE <<"general", Frac(5, 10)>>

\* mutant of classify_image_content: the failure result carries the
\* densities measured before the failure
ClassifyFailureKeepsMeasurements(image, fails) ==
    LET aspect_ratio == Frac(image.width, image.height)
        decided == DetermineImageType(image.edge_density, image.text_density,
                                      aspect_ratio)
    IN IF fails
       THEN [image_type |-> "general", confidence |-> Frac(3, 10), error |-> TRUE,
             edge_density |-> image.edge_density,
             text_density |-> image.text_density]
       ELSE [image_type |-> decided[1],
             confidence |-> decided[2],
             edge_density |-> image.edge_density,
             text_density |-> image.text_density,
             aspect_ratio |-> aspect_ratio,
             is_color |-> image.is_color,
             color_info |-> IF image.is_color
                            THEN [avg_hue |-> image.avg_hue,
                                  avg_saturation |-> image.avg_sat,
                                  is_colorful |-> image.avg_sat > 50]
                            ELSE <<>>,
             dimensions |-> [width |-> image.width, height |-> image.height]]

\* `fails` is the outcome of the numpy/OpenCV calls inside the try block
classify_image_content(image, fails) ==
    IF fails
    THEN [image_type |-> "general", confidence |-> Frac(3, 10), error |-> TRUE]
    ELSE LET aspect_ratio == Frac(image.width, image.height)
             decided == DetermineImageType(image.edge_density, image.text_density,
                                           aspect_ratio)
         IN [image_type |-> decided[1],
             confidence |-> decided[2],
             edge_density |-> image.edge_density,
             text_density |-> image.text_density,
             aspect_ratio |-> aspect_ratio,
             is_color |-> image.is_color,
             color_info |-> IF image.is_color
                            THEN [avg_hue |-> image.avg_hue,
                                  avg_saturation |-> image.avg_sat,
                                  is_colorful |-> image.avg_sat > 50]
                            ELSE <<>>,
             dimensions |-> [width |-> image.width, height |-> image.height]]

\* dict.get(key, default)
Get(dict, key, default) ==
    IF key \in DOMAIN dict THEN dict[key] ELSE default

(***************************************************************************)
(* enhance_image_quality                                                   *)
(***************************************************************************)
MaxVariants ==
    4

\* mutant of Techniques: the edge enhancement is appended second
TechniquesEdgeEarly(enhancement_type) ==
    <<"adaptive_threshold">>
    \o (IF enhancement_type \in {"technical", "auto"} THEN <<"edge_enhanced">> ELSE <<>>)
    \o <<"otsu_threshold", "bilateral_filter", "clahe", "morphological_opening",
         "gaussian_blur", "median_blur">>

\* mutant of Techniques: Otsu's threshold is computed first
TechniquesOtsuFirst(enhancement_type) ==
    <<"otsu_threshold", "adaptive_threshold", "bilateral_filter", "clahe",
      "morphological_opening">>
    \o (IF enhancement_type \in {"technical", "auto"} THEN <<"edge_enhanced">> ELSE <<>>)
    \o <<"gaussian_blur", "median_blur">>

\* techniques in the order the code appends them
Techniques(enhancement_type) ==
    <<"adaptive_threshold", "otsu_threshold", "bilateral_filter", "clahe",
      "morphological_opening">>
    \o (IF enhancement_type \in {"technical", "auto"} THEN <<"edge_enhanced">> ELSE <<>>)
    \o <<"gaussian_blur", "median_blur">>

\* mutant of enhance_image_quality: the list is not truncated
EnhanceUntruncated(enhancement_type, fail_at) ==
    IF fail_at > 0 /\ fail_at <= Len(Techniques(enhancement_type))
    THEN <<"input_image">>
    ELSE Techniques(enhancement_type)

\* the list of variants returned: the first MaxVariants techniques, or the
\* input image alone when any step inside the try block raises.
\* fail_at = 0: nothing raises; k > 0: the k-th technique raises.
enhance_image_quality(enhancement_type, fail_at) ==
    LET processed_images == Techniques(enhancement_type)
    IN IF fail_at > 0 /\ fail_at <= Len(processed_images)
       THEN <<"input_image">>
       ELSE SubSeq(processed_images, 1, Min(MaxVariants, Len(processed_images)))

(***************************************************************************)
(* Inputs and environment                                                  *)
(***************************************************************************)
Img(width, height, is_color, edge_density, text_density, avg_hue, avg_sat) ==
    [width |-> width, height |-> height, is_color |-> is_color,
     edge_density |-> edge_density, text_density |-> text_density,
     avg_hue |-> avg_hue, avg_sat |-> avg_sat]

\* decodable images: one per image type, plus threshold cases
Images ==
    {Img(2000, 1000, TRUE, 50, 20, 20, 80),     \* document
     Img(800, 600, FALSE, 200, 2, 0, 0),        \* technical diagram
     Img(800, 600, TRUE, 150, 10, 100, 20),     \* diagram, on both thresholds
     Img(300, 100, TRUE, 100, 7, 120, 200),     \* banner
     Img(100, 100, FALSE, 30, 7, 0, 0)}         \* general

NoImage ==
    Img(0, 0, FALSE, 0, 0, 0, 0)

\* image_file: a path (str) or a file object, and what Image.open makes of it
ImageFiles ==
    {[is_path |-> TRUE, exists |-> FALSE, decodable |-> FALSE, image |-> NoImage],
     [is_path |-> TRUE, exists |-> TRUE, decodable |-> FALSE, image |-> NoImage],
     [is_path |-> FALSE, exists |-> TRUE, decodable |-> FALSE, image |-> NoImage]}
    \cup {[is_path |-> FALSE, exists |-> TRUE, decodable |-> TRUE, image |-> i] :
            i \in Images}

ImageTypeArgs ==
    {"auto", "technical"}

\* outcomes of `import pytesseract`
ImportOutcomes ==
    {"ok", "ImportError", "OtherError"}

\* texts the OCR engine may return
OcrTextCatalog ==
    <<EmptyText,
      <<"a", "b">>,
      <<"t", "h", "e", " ", "c", "a", "t", " ", "a", "t", "e", " ", "i", "t", " ",
        "a", "t", " ", "t", "e", "a", ".">>,
      <<"a", " ", "#", " ", "b", "\n">>,
      <<" ", "\n">>>>

NumOcrTexts ==
    3

OcrTexts ==
    {OcrTextCatalog[i] : i \in 1..Min(NumOcrTexts, Len(OcrTextCatalog))}

\* outcome of one pytesseract.image_to_string call
OcrOutcomes ==
    {[raises |-> TRUE, text |-> EmptyText]}
    \cup {[raises |-> FALSE, text |-> t] : t \in OcrTexts}

\* outcome of the four Vision detection calls
VisionResponses ==
    {[raises |-> TRUE, text |-> EmptyText, labels |-> <<>>, objects |-> <<>>, faces |-> 0],
     [raises |-> FALSE, text |-> EmptyText, labels |-> <<>>, objects |-> <<>>, faces |-> 0],
     [raises |-> FALSE, text |-> OcrTextCatalog[2], labels |-> <<>>, objects |-> <<>>,
      faces |-> 0],
     [raises |-> FALSE, text |-> EmptyText, labels |-> <<"Font", "Text">>,
      objects |-> <<>>, faces |-> 0],
     [raises |-> FALSE, text |-> OcrTextCatalog[3], labels |-> <<"Person">>,
      objects |-> <<"Person">>, faces |-> 1]}

CommonLocations ==
    <<"C:\\Program Files\\Tesseract-OCR\\tesseract.exe",
      "C:\\Program Files (x86)\\Tesseract-OCR\\tesseract.exe",
      "/usr/bin/tesseract",
      "/usr/local/bin/tesseract">>

\* the common locations that may exist on the host (a Unix host)
HostLocations ==
    {3, 4}

\* the first of common_locations that exists, 0 when none does
FirstExisting(existing) ==
    IF existing = {} THEN 0
    ELSE CHOOSE i \in existing : \A j \in existing : i <= j

(***************************************************************************)
(* extract_text_with_multiple_techniques: catalog and search order         *)
(***************************************************************************)
BaseConfigs ==
    <<[psm |-> 6, lang |-> "eng"],
      [psm |-> 3, lang |-> "eng"],
      [psm |-> 11, lang |-> "eng"]>>

TechnicalConfigs ==
    <<[psm |-> 6, lang |-> "eng+equ"],
      [psm |-> 6, lang |-> "eng+osd"]>>

\* mutant of OcrConfigs: the extra configs only for technical_diagram
OcrConfigsTechnicalOnly(classification) ==
    BaseConfigs
    \o (IF classification.image_type = "technical_diagram"
        THEN TechnicalConfigs ELSE <<>>)

OcrConfigs(classification) ==
    BaseConfigs
    \o (IF classification.image_type \in {"technical_diagram", "diagram"}
        THEN TechnicalConfigs ELSE <<>>)

\* mutant of VariantName: the input image is labelled like the variants
VariantNameAlwaysIndexed(variant_idx) ==
    "variant_" \o ToString(variant_idx)

\* variant_name for position variant_idx of [image] + all_variants
VariantName(variant_idx) ==
    IF variant_idx = 0 THEN "original" ELSE "variant_" \o ToString(variant_idx)

InitialBest ==
    [text |-> EmptyText, confidence |-> Zero, config |-> None, variant |-> "original"]

EarlyExitThreshold ==
    Frac(75, 100)

\* calculate_text_quality of every text the engine can return, computed once
TextQuality ==
    [t \in OcrTexts |-> calculate_text_quality(t)]

\* mutant of ScoreCandidate: the latest candidate is always retained
ScoreCandidateLatest(best_result, text, config, variant_name) ==
    [text |-> text, confidence |-> TextQuality[text],
     config |-> config, variant |-> variant_name]

\* mutant of ScoreCandidate: a tie replaces the retained best
ScoreCandidateOnTie(best_result, text, config, variant_name) ==
    LET text_quality == TextQuality[text]
    IN IF FracGE(text_quality, best_result.confidence)
       THEN [text |-> text, confidence |-> text_quality,
             config |-> config, variant |-> variant_name]
       ELSE best_result

\* the body of the inner try for one pair whose OCR call returned `text`
ScoreCandidate(best_result, text, config, variant_name) ==
    LET text_quality == TextQuality[text]
    IN IF FracGT(text_quality, best_result.confidence)
       THEN [text |-> text, confidence |-> text_quality,
             config |-> config, variant |-> variant_name]
       ELSE best_result

EarlyExit(best_result) ==
    FracGE(best_result.confidence, EarlyExitThreshold)

(***************************************************************************)
(* generate_comprehensive_image_summary                                    *)
(***************************************************************************)
\* mutant of ColorDescription: the saturation test compares with <=
ColorDescriptionInclusive(image) ==
    IF ~image.is_color THEN "grayscale"
    ELSE IF image.avg_sat <= 30 THEN "grayscale or monochrome"
    ELSE IF (0 <= image.avg_hue /\ image.avg_hue < 30)
             \/ (330 <= image.avg_hue /\ image.avg_hue <= 360) THEN "reddish"
    ELSE IF 30 <= image.avg_hue /\ image.avg_hue < 90 THEN "yellowish/greenish"
    ELSE IF 90 <= image.avg_hue /\ image.avg_hue < 150 THEN "greenish"
    ELSE IF 150 <= image.avg_hue /\ image.avg_hue < 210 THEN "cyan/blue"
    ELSE IF 210 <= image.avg_hue /\ image.avg_hue < 270 THEN "bluish/purple"
    ELSE "magenta/pink"

ColorDescription(image) ==
    IF ~image.is_color THEN "grayscale"
    ELSE IF image.avg_sat < 30 THEN "grayscale or monochrome"
    ELSE IF (0 <= image.avg_hue /\ image.avg_hue < 30)
             \/ (330 <= image.avg_hue /\ image.avg_hue <= 360) THEN "reddish"
    ELSE IF 30 <= image.avg_hue /\ image.avg_hue < 90 THEN "yellowish/greenish"
    ELSE IF 90 <= image.avg_hue /\ image.avg_hue < 150 THEN "greenish"
    ELSE IF 150 <= image.avg_hue /\ image.avg_hue < 210 THEN "cyan/blue"
    ELSE IF 210 <= image.avg_hue /\ image.avg_hue < 270 THEN "bluish/purple"
    ELSE "magenta/pink"

ContentDescription(content_type) ==
    IF content_type = "document" THEN "document or text-heavy image"
    ELSE IF content_type = "technical_diagram" THEN "technical diagram or schematic"
    ELSE IF content_type = "diagram" THEN "diagram or chart"
    ELSE IF content_type = "banner_or_poster" THEN "banner, poster, or wide format image"
    ELSE "general image"

\* width > height * 1.5, height > width * 1.5
OrientationSentence(image) ==
    IF 2 * image.width > 3 * image.height
    THEN "The image has a landscape orientation."
    ELSE IF 2 * image.height > 3 * image.width
    THEN "The image has a portrait orientation."
    ELSE "The image has a square or near-square aspect ratio."

TextAnalysis(extracted_text) ==
    [has_text |-> Len(Strip(extracted_text)) > 0,
     word_count |-> WordCount(extracted_text),
     character_count |-> Len(extracted_text),
     text_quality |-> IF WordCount(extracted_text) > 5 THEN "good" ELSE "limited"]

\* mutant of TextSentence: 20 words already count as substantial
TextSentenceInclusive(text_analysis) ==
    IF text_analysis.has_text
    THEN IF text_analysis.word_count >= 20
         THEN "The image contains substantial text content ("
                \o ToString(text_analysis.word_count) \o " words)."
         ELSE IF text_analysis.word_count > 5
         THEN "The image contains some text content ("
                \o ToString(text_analysis.word_count) \o " words)."
         ELSE "The image contains limited text content."
    ELSE "No readable text was detected in the image."

TextSentence(text_analysis) ==
    IF text_analysis.has_text
    THEN IF text_analysis.word_count > 20
         THEN "The image contains substantial text content ("
                \o ToString(text_analysis.word_count) \o " words)."
         ELSE IF text_analysis.word_count > 5
         THEN "The image contains some text content ("
                \o ToString(text_analysis.word_count) \o " words)."
         ELSE "The image contains limited text content."
    ELSE "No readable text was detected in the image."

TechnicalSentence ==
    "The image contains technical elements or diagrams."

UnableSummary ==
    "Unable to generate comprehensive summary due to processing error."

CautionClause ==
    " The image appears to contain visual content that may not be easily readable as text."

\* mutant of generate_comprehensive_image_summary: the failure summary
\* carries no text
SummaryFailureDropsText(image, extracted_text, classification, fails) ==
    IF fails
    THEN [summary |-> <<UnableSummary>>,
          extracted_text |-> EmptyText,
          error |-> TRUE]
    ELSE LET color_description == ColorDescription(image)
             content_type == Get(classification, "image_type", "general")
             edge_density == Get(classification, "edge_density", 0)
             text_density == Get(classification, "text_density", 0)
             text_analysis == TextAnalysis(extracted_text)
             summary_parts ==
                 <<"This appears to be a " \o color_description \o " "
                     \o ContentDescription(content_type) \o ".",
                   OrientationSentence(image),
                   TextSentence(text_analysis)>>
                 \o (IF edge_density > 100 THEN <<TechnicalSentence>> ELSE <<>>)
         IN [summary |-> summary_parts,
             text_analysis |-> text_analysis,
             image_properties |->
                 [dimensions |-> [width |-> image.width, height |-> image.height],
                  color_type |-> color_description,
                  content_type |-> content_type,
                  edge_density |-> edge_density,
                  text_density |-> text_density],
             extracted_text |-> extracted_text,
             confidence |-> Get(classification, "confidence", Frac(5, 10))]

\* The summary is kept as the list of its sentences (summary_parts); the
\* clause the orchestrator concatenates to it is one more element.
\* `fails` is the outcome of the numpy/OpenCV calls inside the try block.
generate_comprehensive_image_summary(image, extracted_text, classification, fails) ==
    IF fails
    THEN [summary |-> <<UnableSummary>>,
          extracted_text |-> extracted_text,
          error |-> TRUE]
    ELSE LET color_description == ColorDescription(image)
             content_type == Get(classification, "image_type", "general")
             edge_density == Get(classification, "edge_density", 0)
             text_density == Get(classification, "text_density", 0)
             text_analysis == TextAnalysis(extracted_text)
             summary_parts ==
                 <<"This appears to be a " \o color_description \o " "
                     \o ContentDescription(content_type) \o ".",
                   OrientationSentence(image),
                   TextSentence(text_analysis)>>
                 \o (IF edge_density > 100 THEN <<TechnicalSentence>> ELSE <<>>)
         IN [summary |-> summary_parts,
             text_analysis |-> text_analysis,
             image_properties |->
                 [dimensions |-> [width |-> image.width, height |-> image.height],
                  color_type |-> color_description,
                  content_type |-> content_type,
                  edge_density |-> edge_density,
                  text_density |-> text_density],
             extracted_text |-> extracted_text,
             confidence |-> Get(classification, "confidence", Frac(5, 10))]

\* summary_results['summary'] += clause
AddToSummary(summary_results, clause) ==
    [summary_results EXCEPT !.summary = Append(@, clause)]

(***************************************************************************)
(* analyze_image_with_vision_api                                           *)
(***************************************************************************)
VisionFailure ==
    [text |-> EmptyText, labels |-> <<>>, objects |-> <<>>,
     faces_detected |-> 0, confidence |-> Zero]

\* `response` is what the four detection calls produced; response.raises
\* when any call inside the try block raises
analyze_image_with_vision_api(client, response) ==
    IF ~client \/ response.raises
    THEN VisionFailure
    ELSE [text |-> response.text,
          labels |-> response.labels,
          objects |-> response.objects,
          faces_detected |-> response.faces,
          confidence |-> Frac(9, 10)]

(***************************************************************************)
(* State                                                                   *)
(***************************************************************************)
VARIABLES
    vision_client,          \* module level: a Vision client was initialised
    tesseract_cmd,          \* module level: pytesseract.pytesseract.tesseract_cmd
    pc,                     \* position of the call to extract_text_from_image
    image_file,             \* argument
    image_type,             \* argument, rebound after classification
    pytesseract_available,
    image,
    vision_results,
    classification,
    all_variants,           \* extract_text_with_multiple_techniques: locals
    ocr_configs,
    variant_idx,
    config_idx,
    best_result,
    last_ocr,               \* outcome of the latest image_to_string call
    extraction_results,
    extracted_text,
    extraction_confidence,
    ocr_config_used,
    processing_variant,
    summary_results,
    exc,                    \* str(e) of the exception the outer handler caught
    result,                 \* the returned dict
    classify_calls,         \* history: calls of classify_image_content
    ocr_calls,              \* history: the (variant, config) pairs handed to OCR
    args,                   \* a function called on its own: its arguments
    ret                     \* and what it returned

globals ==
    <<vision_client, tesseract_cmd>>

unit ==
    <<args, ret>>

search ==
    <<all_variants, ocr_configs, variant_idx, config_idx, best_result, last_ocr,
      ocr_calls>>

extracted ==
    <<extraction_results, extracted_text, extraction_confidence, ocr_config_used,
      processing_variant>>

vars ==
    <<vision_client, tesseract_cmd, pc, image_file, image_type,
      pytesseract_available, image, vision_results, classification, all_variants,
      ocr_configs, variant_idx, config_idx, best_result, last_ocr,
      extraction_results, extracted_text, extraction_confidence, ocr_config_used,
      processing_variant, summary_results, exc, result, classify_calls, ocr_calls,
      args, ret>>

\* the locals of a call before its first statement
FreshCall ==
    /\ pytesseract_available = FALSE
    /\ image = None
    /\ vision_results = None
    /\ classification = None
    /\ all_variants = <<>>
    /\ ocr_configs = <<>>
    /\ variant_idx = 0
    /\ config_idx = 0
    /\ best_result = None
    /\ last_ocr = None
    /\ extraction_results = None
    /\ extracted_text = EmptyText
    /\ extraction_confidence = Zero
    /\ ocr_config_used = None
    /\ processing_variant = NoneStr
    /\ summary_results = None
    /\ exc = NoneStr
    /\ result = None
    /\ classify_calls = 0
    /\ ocr_calls = <<>>

Init ==
    /\ vision_client \in BOOLEAN
    /\ tesseract_cmd = "tesseract"
    /\ pc = "idle"
    /\ image_file = None
    /\ image_type = NoneStr
    /\ FreshCall
    /\ args = None
    /\ ret = None

(***************************************************************************)
(* Results                                                                 *)
(***************************************************************************)
ErrorResult(message) ==
    [success |-> FALSE, error |-> message, text |-> EmptyText,
     labels |-> <<>>, objects |-> <<>>, source |-> "error"]

VisionResult(vr, cls, summary) ==
    [success |-> TRUE, text |-> vr.text, summary |-> summary.summary,
     labels |-> vr.labels, objects |-> vr.objects,
     faces_detected |-> vr.faces_detected, classification |-> cls,
     analysis |-> summary, source |-> "google_vision",
     confidence |-> vr.confidence]

\* mutant of LocalResult: success reported only when text was extracted
LocalResultNeedsText(text, cls, summary, available, confidence, config, variant) ==
    [success |-> text # EmptyText, text |-> text, summary |-> summary.summary,
     labels |-> <<>>, objects |-> <<>>, faces_detected |-> 0,
     classification |-> cls, analysis |-> summary,
     source |-> IF available THEN "tesseract_ocr" ELSE "ocr_description",
     confidence |-> confidence, ocr_config |-> config,
     processing_variant |-> variant]

LocalResult(text, cls, summary, available, confidence, config, variant) ==
    [success |-> TRUE, text |-> text, summary |-> summary.summary,
     labels |-> <<>>, objects |-> <<>>, faces_detected |-> 0,
     classification |-> cls, analysis |-> summary,
     source |-> IF available THEN "tesseract_ocr" ELSE "ocr_description",
     confidence |-> confidence, ocr_config |-> config,
     processing_variant |-> variant]

RecoveryResult(cls, summary) ==
    [success |-> TRUE, text |-> EmptyText, summary |-> summary.summary,
     labels |-> <<>>, objects |-> <<>>, faces_detected |-> 0,
     classification |-> cls, analysis |-> summary,
     source |-> "ocr_description", confidence |-> Zero]

(***************************************************************************)
(* extract_text_from_image, step by step                                   *)
(***************************************************************************)
\* a caller invokes extract_text_from_image(image_file, image_type)
Call ==
    /\ pc = "idle"
    /\ image_file' \in ImageFiles
    /\ image_type' \in ImageTypeArgs
    /\ pc' = "import"
    /\ UNCHANGED <<unit, globals, pytesseract_available, image, vision_results,
                   classification, search, extracted, summary_results, exc, result,
                   classify_calls>>

\* try: import pytesseract / except ImportError
ImportPytesseract ==
    /\ pc = "import"
    /\ \E outcome \in ImportOutcomes :
          \/ /\ outcome = "ok"
             /\ pytesseract_available' = TRUE
             /\ pc' = "open"
             /\ exc' = exc
          \/ /\ outcome = "ImportError"
             /\ pytesseract_available' = FALSE
             /\ pc' = "open"
             /\ exc' = exc
          \/ /\ outcome = "OtherError"
             /\ pytesseract_available' = pytesseract_available
             /\ exc' = "import of pytesseract failed"
             /\ pc' = "recover"
    /\ UNCHANGED <<unit, globals, image_file, image_type, image, vision_results,
                   classification, search, extracted, summary_results, result,
                   classify_calls>>

\* the path check and Image.open
OpenImage ==
    /\ pc = "open"
    /\ \/ /\ image_file.is_path /\ ~image_file.exists
          /\ result' = ErrorResult("Image file not found")
          /\ pc' = "done"
          /\ UNCHANGED <<image, exc>>
       \/ /\ ~(image_file.is_path /\ ~image_file.exists)
          /\ image_file.decodable
          /\ image' = image_file.image
          /\ pc' = IF vision_client THEN "vision" ELSE "classify"
          /\ UNCHANGED <<result, exc>>
       \/ /\ ~(image_file.is_path /\ ~image_file.exists)
          /\ ~image_file.decodable
          /\ exc' = "cannot identify image file"
          /\ pc' = "recover"
          /\ UNCHANGED <<image, result>>
    /\ UNCHANGED <<unit, globals, image_file, image_type, pytesseract_available,
                   vision_results, classification, search, extracted,
                   summary_results, classify_calls>>

\* mutant of VisionShortCircuits: labels alone do not count
VisionShortCircuitsOnText(vr) ==
    vr.text # EmptyText

\* if vision_results['text'] or vision_results['labels']
VisionShortCircuits(vr) ==
    vr.text # EmptyText \/ vr.labels # <<>>

\* mutant of VisionAttempt: the image is classified before the answer is
\* looked at, so a fall-through classifies again
VisionAttemptClassifiesFirst ==
    /\ pc = "vision"
    /\ \E response \in VisionResponses, classify_fails \in BOOLEAN,
          summary_fails \in BOOLEAN :
          LET vr == analyze_image_with_vision_api(vision_client, response)
              cls == classify_image_content(image, classify_fails)
              summary == generate_comprehensive_image_summary(
                             image, vr.text, cls, summary_fails)
          IN /\ vision_results' = vr
             /\ classification' = cls
             /\ classify_calls' = classify_calls + 1
             /\ IF VisionShortCircuits(vr)
                THEN /\ summary_results' = summary
                     /\ result' = VisionResult(vr, cls, summary)
                     /\ pc' = "done"
                ELSE /\ pc' = "classify"
                     /\ UNCHANGED <<summary_results, result>>
    /\ UNCHANGED <<unit, globals, image_file, image_type, pytesseract_available, image,
                   search, extracted, exc>>

\* the Vision attempt, and on a non-empty answer the whole remote path
VisionAttempt ==
    /\ pc = "vision"
    /\ \E response \in VisionResponses, classify_fails \in BOOLEAN,
          summary_fails \in BOOLEAN :
          LET vr == analyze_image_with_vision_api(vision_client, response)
              cls == classify_image_content(image, classify_fails)
              summary == generate_comprehensive_image_summary(
                             image, vr.text, cls, summary_fails)
          IN /\ vision_results' = vr
             /\ IF VisionShortCircuits(vr)
                THEN /\ classification' = cls
                     /\ classify_calls' = classify_calls + 1
                     /\ summary_results' = summary
                     /\ result' = VisionResult(vr, cls, summary)
                     /\ pc' = "done"
                ELSE /\ pc' = "classify"
                     /\ UNCHANGED <<classification, classify_calls,
                                    summary_results, result>>
    /\ UNCHANGED <<unit, globals, image_file, image_type, pytesseract_available, image,
                   search, extracted, exc>>

\* classification of the local path (both branches of `if image_type == 'auto'`)
ClassifyLocal ==
    /\ pc = "classify"
    /\ \E classify_fails \in BOOLEAN :
          LET cls == classify_image_content(image, classify_fails)
          IN /\ classification' = cls
             /\ image_type' = IF image_type = "auto" THEN cls.image_type
                              ELSE image_type
    /\ classify_calls' = classify_calls + 1
    /\ pc' = IF pytesseract_available THEN "extract" ELSE "compose"
    /\ UNCHANGED <<unit, globals, image_file, pytesseract_available, image,
                   vision_results, search, extracted, summary_results, exc, result>>

\* [image] + all_variants
SearchImages(variants) ==
    <<"input_image">> \o variants

\* extract_text_with_multiple_techniques up to the search loop: locate the
\* Tesseract command, build the variants and the configuration catalog
BeginExtraction ==
    /\ pc = "extract"
    /\ \E which_found \in BOOLEAN, existing \in SUBSET HostLocations,
          fail_at \in 0..8 :
          LET location == FirstExisting(existing)
          IN IF ~which_found /\ location = 0
             THEN \* raise Exception("Tesseract not found"): the function returns
                  \* an error dict, which the orchestrator raises and swallows
                  /\ extraction_results' =
                         [text |-> EmptyText, confidence |-> Zero,
                          error |-> "Tesseract not found"]
                  /\ pc' = "compose"
                  /\ UNCHANGED <<tesseract_cmd, all_variants, ocr_configs,
                                 variant_idx, config_idx, best_result>>
             ELSE /\ tesseract_cmd' = IF which_found THEN tesseract_cmd
                                      ELSE CommonLocations[location]
                  /\ all_variants' =
                         enhance_image_quality(classification.image_type, fail_at)
                  /\ ocr_configs' = OcrConfigs(classification)
                  /\ best_result' = InitialBest
                  /\ variant_idx' = 0
                  /\ config_idx' = 1
                  /\ pc' = "ocr"
                  /\ UNCHANGED extraction_results
    /\ UNCHANGED <<unit, vision_client, image_file, image_type,
                   pytesseract_available, image, vision_results, classification,
                   last_ocr, ocr_calls, extracted_text, extraction_confidence, ocr_config_used,
                   processing_variant, summary_results, exc, result, classify_calls>>

\* mutant of AfterOcr: a failed call throws the retained best away
AfterOcrResets(best, outcome, config, variant_name) ==
    IF outcome.raises THEN InitialBest
    ELSE ScoreCandidate(best, outcome.text, config, variant_name)

\* the retained best after one image_to_string call (the inner try/except)
AfterOcr(best, outcome, config, variant_name) ==
    IF outcome.raises THEN best
    ELSE ScoreCandidate(best, outcome.text, config, variant_name)

\* the search returns after this pair: the early exit inside the try, or
\* both loops exhausted
SearchReturns(best, outcome, last_pair) ==
    (~outcome.raises /\ EarlyExit(best)) \/ last_pair

\* one iteration of the inner loop; the last one also returns best_result
\* to the orchestrator, which copies its fields
OcrCall ==
    /\ pc = "ocr"
    /\ \E outcome \in OcrOutcomes :
          LET config == ocr_configs[config_idx]
              best == AfterOcr(best_result, outcome, config, VariantName(variant_idx))
              last_pair == /\ variant_idx = Len(all_variants)
                           /\ config_idx = Len(ocr_configs)
          IN /\ last_ocr' = outcome
             /\ ocr_calls' = Append(ocr_calls,
                    [variant |-> variant_idx,
                     image |-> SearchImages(all_variants)[variant_idx + 1],
                     config |-> config])
             /\ best_result' = best
             /\ IF SearchReturns(best, outcome, last_pair)
                THEN /\ extraction_results' = best
                     /\ extracted_text' = best.text
                     /\ extraction_confidence' = best.confidence
                     /\ ocr_config_used' = best.config
                     /\ processing_variant' = best.variant
                     /\ pc' = "compose"
                     /\ UNCHANGED <<variant_idx, config_idx>>
                ELSE /\ IF config_idx < Len(ocr_configs)
                        THEN /\ config_idx' = config_idx + 1
                             /\ variant_idx' = variant_idx
                        ELSE /\ config_idx' = 1
                             /\ variant_idx' = variant_idx + 1
                     /\ pc' = "ocr"
                     /\ UNCHANGED extracted
    /\ UNCHANGED <<unit, globals, image_file, image_type, pytesseract_available, image,
                   vision_results, classification, all_variants, ocr_configs,
                   summary_results, exc, result, classify_calls>>

\* if len(extracted_text.strip().split()) < 5
MinimalText(text) ==
    WordCount(Strip(text)) < 5

\* summary composition and the result of the local path
Compose ==
    /\ pc = "compose"
    /\ \E summary_fails \in BOOLEAN :
          LET composed == generate_comprehensive_image_summary(
                              image, extracted_text, classification, summary_fails)
              summary == IF MinimalText(extracted_text)
                         THEN AddToSummary(composed, CautionClause)
                         ELSE composed
          IN /\ summary_results' = summary
             /\ result' = LocalResult(extracted_text, classification, summary,
                                      pytesseract_available, extraction_confidence,
                                      ocr_config_used, processing_variant)
    /\ pc' = "done"
    /\ UNCHANGED <<unit, globals, image_file, image_type, pytesseract_available, image,
                   vision_results, classification, search, extracted, exc,
                   classify_calls>>

\* mutant of Recover: no inner try, a failed re-open reaches the caller
RecoverPropagates ==
    /\ pc = "recover"
    /\ IF image_file.decodable
       THEN \E classify_fails \in BOOLEAN, summary_fails \in BOOLEAN :
               LET cls == classify_image_content(image_file.image, classify_fails)
                   summary == generate_comprehensive_image_summary(
                                  image_file.image, EmptyText, cls, summary_fails)
               IN /\ image' = image_file.image
                  /\ classification' = cls
                  /\ classify_calls' = classify_calls + 1
                  /\ summary_results' = summary
                  /\ result' = RecoveryResult(cls, summary)
                  /\ pc' = "done"
       ELSE /\ pc' = "raised"
            /\ UNCHANGED <<image, classification, classify_calls, summary_results,
                           result>>
    /\ UNCHANGED <<unit, globals, image_file, image_type, pytesseract_available,
                   vision_results, search, extracted, exc>>

\* the outer except: re-open, classify, describe; or the error result
Recover ==
    /\ pc = "recover"
    /\ IF image_file.decodable
       THEN \E classify_fails \in BOOLEAN, summary_fails \in BOOLEAN :
               LET cls == classify_image_content(image_file.image, classify_fails)
                   summary == generate_comprehensive_image_summary(
                                  image_file.image, EmptyText, cls, summary_fails)
               IN /\ image' = image_file.image
                  /\ classification' = cls
                  /\ classify_calls' = classify_calls + 1
                  /\ summary_results' = summary
                  /\ result' = RecoveryResult(cls, summary)
       ELSE /\ result' = ErrorResult("Error extracting text from image: " \o exc)
            /\ UNCHANGED <<image, classification, classify_calls, summary_results>>
    /\ pc' = "done"
    /\ UNCHANGED <<unit, globals, image_file, image_type, pytesseract_available,
                   vision_results, search, extracted, exc>>

\* the caller takes the result; the locals of the call are gone
Return ==
    /\ pc = "done"
    /\ pc' = "idle"
    /\ image_file' = None
    /\ image_type' = NoneStr
    /\ pytesseract_available' = FALSE
    /\ image' = None
    /\ vision_results' = None
    /\ classification' = None
    /\ all_variants' = <<>>
    /\ ocr_configs' = <<>>
    /\ variant_idx' = 0
    /\ config_idx' = 0
    /\ best_result' = None
    /\ last_ocr' = None
    /\ extraction_results' = None
    /\ extracted_text' = EmptyText
    /\ extraction_confidence' = Zero
    /\ ocr_config_used' = None
    /\ processing_variant' = NoneStr
    /\ summary_results' = None
    /\ exc' = NoneStr
    /\ result' = None
    /\ classify_calls' = 0
    /\ ocr_calls' = <<>>
    /\ UNCHANGED <<unit, globals>>

Next ==
    \/ Call
    \/ ImportPytesseract
    \/ OpenImage
    \/ VisionAttempt
    \/ ClassifyLocal
    \/ BeginExtraction
    \/ OcrCall
    \/ Compose
    \/ Recover
    \/ Return

TypeOK ==
    /\ pc \in {"idle", "import", "open", "vision", "classify", "extract", "ocr",
               "compose", "recover", "done"}
    /\ vision_client \in BOOLEAN
    /\ classify_calls \in 0..2

Spec ==
    Init /\ [][Next]_vars

(***************************************************************************)
(* Properties of extract_text_from_image                                   *)
(***************************************************************************)
Positions ==
    {"idle", "import", "open", "vision", "classify", "extract", "ocr",
     "compose", "recover", "done"}

Done ==
    pc = "done"

\* the image behind image_file cannot be loaded
CannotLoad ==
    (image_file.is_path /\ ~image_file.exists) \/ ~image_file.decodable

\* the outer handler ran
MainPathRaised ==
    exc # NoneStr

InUnitInterval(x) ==
    FracGE(x, Zero) /\ FracLE(x, One)

\* C1: extract_text_from_image never raises to its caller: every call ends
\* with a dict carrying 'success'.  When the main path raised, the result is
\* the recovery result (success, text '', confidence 0.0, source
\* 'ocr_description') unless the recovery's own re-open failed, and only
\* then the error result (success False, a message, empty text, labels and
\* objects, source 'error').
C1_NeverRaises ==
    /\ pc \in Positions
    /\ Done => "success" \in DOMAIN result
    /\ Done /\ MainPathRaised =>
          IF image_file.decodable
          THEN /\ result.success
               /\ result.text = EmptyText
               /\ result.confidence = Zero
               /\ result.source = "ocr_description"
               /\ result.classification = classification
               /\ result.summary = summary_results.summary
          ELSE /\ ~result.success
               /\ "error" \in DOMAIN result
               /\ result.text = EmptyText
               /\ result.labels = <<>>
               /\ result.objects = <<>>
               /\ result.source = "error"

\* C1 witness: the main path raised and the recovery produced its result
C1_Witness ==
    /\ Done
    /\ MainPathRaised
    /\ result.success
    /\ result.source = "ocr_description"

\* C2: success is False only when the image cannot be loaded; for every
\* decodable image, whatever fails afterwards, the result has success True
\* and a confidence in [0, 1].
C2_FailureOnlyOnLoad ==
    Done =>
        /\ ~result.success => CannotLoad
        /\ image_file.decodable =>
              /\ result.success
              /\ InUnitInterval(result.confidence)

\* C2 witness: a decodable image for which the Vision call, classification,
\* enhancement, the last OCR call and composition all failed, returned with
\* success True
C2_Witness ==
    /\ Done
    /\ image_file.decodable
    /\ result.success
    /\ vision_client
    /\ vision_results = VisionFailure
    /\ all_variants = <<"input_image">>
    /\ "error" \in DOMAIN result.classification
    /\ "error" \in DOMAIN result.analysis
    /\ ocr_calls # <<>>
    /\ last_ocr.raises
    /\ result.confidence = Zero

\* the local path ran without a usable OCR engine: pytesseract could not be
\* imported, or it imported and the Tesseract command was not found
EngineAbsent ==
    \/ ~pytesseract_available
    \/ Get(extraction_results, "error", NoneStr) = "Tesseract not found"

\* C3: when no local OCR capability is present, the result of the local
\* path carries the source 'ocr_description', not 'tesseract_ocr', with
\* confidence 0.0 and a non-empty summary; both when pytesseract cannot be
\* imported and when the Tesseract binary is not found.
C3_EngineAbsentIsDescriptionOnly ==
    Done /\ result.success /\ ~MainPathRaised /\ result.source # "google_vision"
         /\ EngineAbsent =>
        /\ result.source = "ocr_description"
        /\ result.confidence = Zero
        /\ result.summary # <<>>

\* a Vision client is configured and its answer has text or labels
VisionAnswered ==
    /\ vision_client
    /\ vision_results # None
    /\ (vision_results.text # EmptyText \/ vision_results.labels # <<>>)

\* extract_text_with_multiple_techniques was not called
SearchSkipped ==
    extraction_results = None /\ ocr_calls = <<>>

\* what a short-circuited call returns
CarriesVisionAnswer ==
    /\ result.success
    /\ result.source = "google_vision"
    /\ result.text = vision_results.text
    /\ result.labels = vision_results.labels
    /\ result.objects = vision_results.objects
    /\ result.faces_detected = vision_results.faces_detected
    /\ result.confidence = vision_results.confidence
    /\ result.confidence = Frac(9, 10)
    /\ classify_calls = 1
    /\ result.classification = classification
    /\ result.summary = summary_results.summary

\* the call went through local classification and composition
WentLocal ==
    /\ result.success
    /\ result.source \in {"tesseract_ocr", "ocr_description"}
    /\ classify_calls = 1
    /\ result.classification = classification
    /\ result.summary = summary_results.summary

\* C4 as stated: for a loaded image, the local OCR search is skipped
\* exactly when a Vision client is configured and answers with text or
\* labels; then the result carries the Vision answer, otherwise the call
\* goes through local classify, extract and compose.
C4_SkippedExactlyOnVisionAnswer ==
    Done /\ image # None /\ ~MainPathRaised =>
        /\ SearchSkipped <=> VisionAnswered
        /\ VisionAnswered => CarriesVisionAnswer
        /\ ~VisionAnswered => WentLocal

\* C4 amended: for a loaded image and an importable pytesseract, the local
\* OCR search is skipped exactly when a Vision client is configured and
\* answers with text or labels; without pytesseract it is skipped as well.
\* A Vision answer is carried by the result with the source
\* 'google_vision', and every other call on a loaded image goes through
\* local classification and composition.
C4_SkippedOnVisionAnswerOrNoPytesseract ==
    Done /\ image # None /\ ~MainPathRaised =>
        /\ pytesseract_available => (SearchSkipped <=> VisionAnswered)
        /\ ~pytesseract_available => SearchSkipped
        /\ VisionAnswered => CarriesVisionAnswer
        /\ ~VisionAnswered => WentLocal

\* C4 witness: a Vision answer with labels only short-circuited the call
C4_Witness ==
    /\ Done
    /\ pytesseract_available
    /\ VisionAnswered
    /\ vision_results.text = EmptyText
    /\ SearchSkipped
    /\ result.source = "google_vision"

\* C5: within one call classify_image_content runs at most once, and the
\* catalog of the extraction stage, the composed summary and the returned
\* 'classification' all come from that one value, on the remote path, the
\* local path after an empty or failed Vision attempt, and the recovery path.
C5_ClassifiedOnce ==
    /\ classify_calls <= 1
    /\ classification # None => classify_calls = 1
    /\ ocr_configs # <<>> =>
          (Len(ocr_configs) = 5
             <=> classification.image_type \in {"technical_diagram", "diagram"})
    /\ Done /\ result.success =>
          /\ classify_calls = 1
          /\ result.classification = classification
          /\ result.analysis = summary_results
          /\ "image_properties" \in DOMAIN summary_results =>
                summary_results.image_properties.content_type
                    = classification.image_type

\* C5 witness: a Vision attempt came back empty, the local path classified
\* once and searched with that classification
C5_Witness ==
    /\ Done
    /\ vision_results # None
    /\ ocr_calls # <<>>
    /\ classify_calls = 1
    /\ result.classification = classification

(***************************************************************************)
(* classify_image_content on its own: every image of a grid around the     *)
(* thresholds is classified once                                           *)
(***************************************************************************)
GridDensities ==
    {0, 4, 5, 6, 10, 11, 100, 101, 150, 151, 300}

GridSizes ==
    {<<100, 100>>, <<200, 100>>, <<201, 100>>, <<100, 200>>, <<100, 201>>}

GridImages ==
    {Img(size[1], size[2], FALSE, e, t, 0, 0) :
        size \in GridSizes, e \in GridDensities, t \in GridDensities}

ClassifyInit ==
    /\ vision_client = FALSE
    /\ tesseract_cmd = "tesseract"
    /\ pc = "classify"
    /\ image \in GridImages
    /\ image_file = [is_path |-> FALSE, exists |-> TRUE, decodable |-> TRUE,
                     image |-> image]
    /\ image_type \in ImageTypeArgs
    /\ pytesseract_available = TRUE
    /\ vision_results = None
    /\ classification = None
    /\ all_variants = <<>>
    /\ ocr_configs = <<>>
    /\ variant_idx = 0
    /\ config_idx = 0
    /\ best_result = None
    /\ last_ocr = None
    /\ extraction_results = None
    /\ extracted_text = EmptyText
    /\ extraction_confidence = Zero
    /\ ocr_config_used = None
    /\ processing_variant = NoneStr
    /\ summary_results = None
    /\ exc = NoneStr
    /\ result = None
    /\ classify_calls = 0
    /\ ocr_calls = <<>>
    /\ args = None
    /\ ret = None

ClassifySpec ==
    ClassifyInit /\ [][ClassifyLocal]_vars

\* C6: image_type and confidence follow the first-match-wins cascade:
\* (1) edge_density > 0.15 and text_density < 0.005: technical_diagram, 0.8;
\* (2) text_density > 0.01: document, 0.9; (3) edge_density > 0.1: diagram,
\* 0.7; (4) aspect_ratio > 2 or < 0.5: banner_or_poster, 0.6; (5) general,
\* 0.5.  The comparisons are strict: 0.15 exactly does not trigger rule 1,
\* 0.01 exactly does not trigger rule 2.
C6_Cascade ==
    classification # None /\ "error" \notin DOMAIN classification =>
        LET e == image.edge_density
            t == image.text_density
            r1 == e > 150 /\ t < 5
            r2 == t > 10
            r3 == e > 100
            r4 == image.width > 2 * image.height \/ 2 * image.width < image.height
            got == <<classification.image_type, classification.confidence>>
        IN /\ r1 => got = <<"technical_diagram", Frac(8, 10)>>
           /\ ~r1 /\ r2 => got = <<"document", Frac(9, 10)>>
           /\ ~r1 /\ ~r2 /\ r3 => got = <<"diagram", Frac(7, 10)>>
           /\ ~r1 /\ ~r2 /\ ~r3 /\ r4 => got = <<"banner_or_poster", Frac(6, 10)>>
           /\ ~r1 /\ ~r2 /\ ~r3 /\ ~r4 => got = <<"general", Frac(5, 10)>>
           /\ e = 150 => got[1] # "technical_diagram"
           /\ t = 10 => got[1] # "document"

\* C6 witness: edge_density exactly 0.15 with little text is classified
\* diagram by rule 3, not technical_diagram
C6_Witness ==
    /\ classification # None
    /\ "error" \notin DOMAIN classification
    /\ image.edge_density = 150
    /\ image.text_density < 5
    /\ classification.image_type = "diagram"

(***************************************************************************)
(* Properties of extract_text_with_multiple_techniques                     *)
(***************************************************************************)
\* the search loop has been entered
Searching ==
    ocr_configs # <<>>

\* number of (image, config) pairs of the search space
SearchSpace ==
    (Len(all_variants) + 1) * Len(ocr_configs)

C9_Catalog ==
    Searching =>
        /\ Len(ocr_configs) \in {3, 5}
        /\ ocr_configs[1] = [psm |-> 6, lang |-> "eng"]
        /\ ocr_configs[2] = [psm |-> 3, lang |-> "eng"]
        /\ ocr_configs[3] = [psm |-> 11, lang |-> "eng"]
        /\ Len(ocr_configs) = 5 <=>
              classification.image_type \in {"technical_diagram", "diagram"}
        /\ Len(ocr_configs) = 5 =>
              /\ ocr_configs[4] = [psm |-> 6, lang |-> "eng+equ"]
              /\ ocr_configs[5] = [psm |-> 6, lang |-> "eng+osd"]

\* C9 witness: an image classified diagram is searched with 5 configs
C9_Witness ==
    /\ Searching
    /\ classification.image_type = "diagram"
    /\ Len(ocr_configs) = 5

\* C10: an OCR call that raises leaves the retained best unchanged and the
\* search goes on with the next pair; after the last pair the retained best
\* is what the search returns.
C10_FailedPairKeepsBest ==
    [][pc = "ocr" /\ Len(ocr_calls') = Len(ocr_calls) + 1 /\ last_ocr'.raises =>
          /\ best_result' = best_result
          /\ IF Len(ocr_calls') < SearchSpace
             THEN /\ pc' = "ocr"
                  /\ variant_idx' * Len(ocr_configs) + config_idx'
                        = variant_idx * Len(ocr_configs) + config_idx + 1
                  /\ config_idx' \in 1..Len(ocr_configs)
             ELSE /\ pc' = "compose"
                  /\ extraction_results' = best_result]_vars

\* C10 witness: a call raised after an earlier pair had set the retained
\* best, and the search is still running with that best
C10_Witness ==
    /\ pc = "ocr"
    /\ ocr_calls # <<>>
    /\ last_ocr.raises
    /\ FracGT(best_result.confidence, Zero)
    /\ best_result.text # EmptyText

\* the (variant, config) pairs are used up
Exhausted ==
    /\ ocr_calls # <<>>
    /\ Len(ocr_calls) = (Len(all_variants) + 1) * Len(ocr_configs)

\* C11: when the search of extract_text_with_multiple_techniques is used up
\* and no pair scored above 0 (every OCR call raised or returned a text of
\* quality 0), the function returns text '', confidence 0, config None and
\* variant 'original'.  Stated step by step: the search starts from that
\* result, a call that raises or scores 0 leaves it in place, and the last
\* such call hands it to the orchestrator.
C11_NothingScoredGivesEmpty ==
    [][/\ pc = "extract" /\ pc' = "ocr" =>
             /\ best_result'.text = <<>>
             /\ best_result'.confidence = Frac(0, 1)
             /\ best_result'.config = None
             /\ best_result'.variant = "original"
       /\ /\ pc = "ocr"
          /\ best_result.text = <<>>
          /\ best_result.confidence = Frac(0, 1)
          /\ best_result.config = None
          /\ best_result.variant = "original"
          /\ \/ last_ocr'.raises
             \/ TextQuality[last_ocr'.text] = Frac(0, 1)
          => /\ best_result' = best_result
             /\ pc' = "compose" =>
                   /\ extraction_results'.text = <<>>
                   /\ extraction_results'.confidence = Frac(0, 1)
                   /\ extraction_results'.config = None
                   /\ extraction_results'.variant = "original"
                   /\ DOMAIN extraction_results' =
                          {"text", "confidence", "config", "variant"}]_vars

\* the search ended on its last pair with nothing scored, the last call
\* having returned a text of quality 0
C11_Witness ==
    /\ pc = "compose"
    /\ Exhausted
    /\ ~last_ocr.raises
    /\ TextQuality[last_ocr.text] = Frac(0, 1)
    /\ extraction_results.confidence = Frac(0, 1)
    /\ "variant" \in DOMAIN extraction_results
    /\ extraction_results.variant = "original"

(***************************************************************************)
(* The summary of a successful result                                      *)
(***************************************************************************)
\* C17: on every successful result of extract_text_from_image (local OCR,
\* remote vision, description-only recovery) the summary ends with the
\* fixed cautionary clause, appended by the orchestrator after composition,
\* when the extracted text has fewer than 5 whitespace-delimited words, and
\* the clause is absent when it has 5 or more.
C17_ShortTextCarriesCaution ==
    Done /\ result.success =>
        (Len(Split(Strip(result.text))) < 5
            <=> result.summary[Len(result.summary)] = CautionClause)

\* the summary of this result is the one of the except branch
FailureSummary(res) ==
    /\ "analysis" \in DOMAIN res
    /\ "error" \in DOMAIN res.analysis

\* C18: generate_comprehensive_image_summary never raises: an internal
\* failure yields the generic failure-explanation summary whose
\* extracted_text field is the input text unchanged, and the orchestrator
\* still builds a success result from it.  Stated over the steps that call
\* it: a step that ends the call with a failure summary raised nothing, and
\* its result is a success carrying that summary and the text it was given.
C18_SummaryFailureStillSucceeds ==
    [][pc # "done" /\ pc' = "done" /\ FailureSummary(result') =>
          /\ exc' = exc
          /\ result'.success
          /\ DOMAIN result'.analysis = {"summary", "extracted_text", "error"}
          /\ result'.analysis.summary[1] =
                "Unable to generate comprehensive summary due to processing error."
          /\ result'.analysis.extracted_text = result'.text
          /\ result'.summary = result'.analysis.summary
          /\ pc = "compose" => result'.text = extracted_text
          /\ pc = "vision" => result'.text = vision_results'.text
          /\ pc = "recover" => result'.text = <<>>]_vars

\* the OCR search found a text, the composition failed, and the local
\* result is a success that carries the text
C18_Witness ==
    /\ Done
    /\ FailureSummary(result)
    /\ result.success
    /\ result.source = "tesseract_ocr"
    /\ result.text # <<>>
    /\ result.analysis.extracted_text = result.text

(***************************************************************************)
(* Functions called on their own                                           *)
(***************************************************************************)
\* every variable of a call to extract_text_from_image
pipeline ==
    <<vision_client, tesseract_cmd, pc, image_file, image_type,
      pytesseract_available, image, vision_results, classification, all_variants,
      ocr_configs, variant_idx, config_idx, best_result, last_ocr,
      extraction_results, extracted_text, extraction_confidence, ocr_config_used,
      processing_variant, summary_results, exc, result, classify_calls, ocr_calls>>

\* no call to extract_text_from_image is under way
NoPipeline ==
    /\ vision_client = FALSE
    /\ tesseract_cmd = "tesseract"
    /\ pc = "idle"
    /\ image_file = None
    /\ image_type = NoneStr
    /\ FreshCall

TechniqueNames ==
    {"adaptive_threshold", "otsu_threshold", "bilateral_filter", "clahe",
     "morphological_opening", "edge_enhanced", "gaussian_blur", "median_blur"}

\* the documented values of enhancement_type and the image types the
\* orchestrator passes
EnhancementTypes ==
    {"auto", "text", "technical", "document", "technical_diagram", "diagram",
     "banner_or_poster", "general"}

\* the first technique of the try block that raises, 0 when none does;
\* `failing` are the techniques that would raise on this image
FirstFailing(enhancement_type, failing) ==
    LET processed_images == Techniques(enhancement_type)
        raising == {i \in 1..Len(processed_images) : processed_images[i] \in failing}
    IN IF raising = {} THEN 0
       ELSE CHOOSE i \in raising : \A j \in raising : i <= j

EnhanceInit ==
    /\ NoPipeline
    /\ args \in {[fn |-> "enhance_image_quality", enhancement_type |-> e,
                  failing |-> f] :
                     e \in EnhancementTypes, f \in SUBSET TechniqueNames}
    /\ ret = None

EnhanceCall ==
    /\ ret = None
    /\ ret' = [value |-> enhance_image_quality(args.enhancement_type,
                             FirstFailing(args.enhancement_type, args.failing))]
    /\ UNCHANGED <<args, pipeline>>

EnhanceSpec ==
    EnhanceInit /\ [][EnhanceCall]_vars

\* C12: enhance_image_quality returns at most 4 variants, and when no
\* technique fails exactly these 4 in this order: adaptive threshold, Otsu
\* threshold, bilateral filter + Otsu, CLAHE + Otsu.
C12_FourVariantsInOrder ==
    ret # None =>
        /\ Len(ret.value) <= 4
        /\ args.failing = {} =>
              ret.value = <<"adaptive_threshold", "otsu_threshold",
                            "bilateral_filter", "clahe">>

\* nothing failed for a technical image (8 techniques ran) and 4 variants
\* came back
C12_Witness ==
    /\ ret # None
    /\ args.failing = {}
    /\ args.enhancement_type = "technical"
    /\ Len(ret.value) = 4

\* C13: if one technique of enhance_image_quality throws, that technique
\* alone is skipped and the remaining techniques' variants are still
\* produced in order (the first 4 of them); the input image is returned as
\* the single-element fallback list only if every technique fails.
C13_FailingTechniqueSkipped ==
    ret # None =>
        LET Survives(name) == name \notin args.failing
            remaining == SelectSeq(Techniques(args.enhancement_type), Survives)
        IN ret.value = IF remaining = <<>> THEN <<"input_image">>
                       ELSE SubSeq(remaining, 1, Min(4, Len(remaining)))

(***************************************************************************)
(* calculate_text_quality on its own                                       *)
(***************************************************************************)
\* a word of n letters
Token(n) ==
    SubSeq(<<"a", "b", "c", "d", "e", "f", "g", "h">>, 1, n)

\* the texts scored are built from these pieces: words of 1, 2 and 8
\* letters, four 2-letter words in a row, whitespace, a terminator and a
\* character outside every class of the first artifact pattern
QualityPieces ==
    {Token(1), Token(2), Token(8),
     Token(2) \o <<" ">> \o Token(2) \o <<" ">> \o Token(2) \o <<" ">> \o Token(2)
        \o <<" ">>,
     <<" ">>, <<"\n">>, <<".">>, <<"#">>}

MaxPieces ==
    3

RECURSIVE Concat(_)
Concat(pieces) ==
    IF pieces = <<>> THEN <<>> ELSE Head(pieces) \o Concat(Tail(pieces))

QualityTexts ==
    {Concat(pieces) : pieces \in UNION {[1..n -> QualityPieces] : n \in 0..MaxPieces}}

TokenLengths ==
    {2, 4, 8}

MaxSentenceWords ==
    2

\* a sentence of k words of n letters, separated by blanks and ended by '.'
RECURSIVE Sentence(_, _)
Sentence(n, k) ==
    IF k = 1 THEN Token(n) \o <<".">>
    ELSE Token(n) \o <<" ">> \o Sentence(n, k - 1)

WellFormedSentences ==
    {Sentence(n, k) : n \in TokenLengths, k \in 1..MaxSentenceWords}

QualityInit ==
    /\ NoPipeline
    /\ args \in {[fn |-> "calculate_text_quality", text |-> t] : t \in QualityTexts}
    /\ ret = None

\* calculate_text_quality(text)
QualityCall ==
    /\ ret = None
    /\ ret' = [value |-> calculate_text_quality(args.text)]
    /\ UNCHANGED <<args, pipeline>>

\* calculate_text_quality(text + ' ' + sentence), after the call on text
QualityAfterAppend ==
    /\ ret # None
    /\ "before" \notin DOMAIN ret
    /\ \E sentence \in WellFormedSentences :
          LET longer == args.text \o <<" ">> \o sentence
          IN /\ args' = [fn |-> "calculate_text_quality", text |-> longer,
                         original |-> args.text, sentence |-> sentence]
             /\ ret' = [value |-> calculate_text_quality(longer),
                        before |-> ret.value]
    /\ UNCHANGED pipeline

QualitySpec ==
    QualityInit /\ [][QualityCall \/ QualityAfterAppend]_vars

\* the call was on `text` itself, no sentence appended
ScoredAlone ==
    ret # None /\ "before" \notin DOMAIN ret

\* the second call, on the text with a sentence appended
ScoredAppended ==
    ret # None /\ "before" \in DOMAIN ret

Blank(text) ==
    \A i \in 1..Len(text) : text[i] \in {" ", "\n"}

\* C14: calculate_text_quality returns exactly 0.0 for the empty string and
\* for every whitespace-only text.
C14_BlankScoresZero ==
    ScoredAlone /\ Blank(args.text) => ret.value = Frac(0, 1)

\* a text of a blank and a line break scored 0
C14_Witness ==
    /\ ScoredAlone
    /\ args.text = <<" ", "\n">>
    /\ ret.value = Frac(0, 1)

TwoLetterWord(text) ==
    Len(text) = 2 /\ text[1] \in {"a", "b"} /\ text[2] \in {"a", "b"}

\* C15 as stated: calculate_text_quality of a single two-letter word with no
\* sentence terminator is exactly 0.0.
C15_TwoLetterWordScoresZero ==
    ScoredAlone /\ TwoLetterWord(args.text) => ret.value = Frac(0, 1)

\* C15 amended: calculate_text_quality of a single two-letter word with no
\* sentence terminator is exactly 0.09 (0.3 * 1/10 + 0.2 * 2/8 + 0.2 * 1/20,
\* no artifact penalty), which is above 0.
C15_TwoLetterWordScoresNineHundredths ==
    ScoredAlone /\ TwoLetterWord(args.text) => ret.value = Frac(9, 100)

\* 'ab' scored 0.09
C15_Witness ==
    /\ ScoredAlone
    /\ args.text = <<"a", "b">>
    /\ ret.value = Frac(9, 100)

\* C16 as stated: for every non-empty text, appending a well-formed
\* sentence (words of moderate length matching no artifact pattern, ended
\* by a terminator) such that the word count stays below 10 gives a score
\* not lower than that of the original text.
C16_AppendingNeverLowers ==
    ScoredAppended /\ args.original # <<>> /\ Len(Split(Strip(args.text))) < 10
        => FracGE(ret.value, ret.before)

\* the appended words are each at least as long as the average word of
\* `original` (or 8 characters, where length_score is capped)
NoShorterThanAverage(original, sentence) ==
    LET words == Split(Strip(original))
        appended == Split(sentence)
    IN \A i \in 1..Len(appended) :
          \/ Len(appended[i]) >= 8
          \/ Len(appended[i]) * Len(words) >= SumLen(words)

\* the appended sentence has at least as many words as the average
\* sentence of `original`: word_count / sentence_count
NoShorterThanSentences(original, sentence) ==
    Len(Split(sentence)) * SentenceCount(Strip(original))
        >= Len(Split(Strip(original)))

\* C16 amended: for every non-empty text, appending a well-formed sentence
\* such that the word count stays below 10 gives a score not lower than the
\* original's provided that each appended word is at least as long as the
\* text's average word (or 8 characters) and the sentence has at least
\* word_count / sentence_count words; otherwise length_score or
\* sentence_score can fall by more than word_score rises.
C16_AppendingLongEnoughNeverLowers ==
    /\ ScoredAppended
    /\ args.original # <<>>
    /\ Len(Split(Strip(args.text))) < 10
    /\ NoShorterThanAverage(args.original, args.sentence)
    /\ NoShorterThanSentences(args.original, args.sentence)
    => FracGE(ret.value, ret.before)

\* 'ab' scored 0.09, and more with a sentence of one four-letter word
\* appended
C16_Witness ==
    /\ ScoredAppended
    /\ args.original = <<"a", "b">>
    /\ args.sentence = <<"a", "b", "c", "d", ".">>
    /\ NoShorterThanAverage(args.original, args.sentence)
    /\ NoShorterThanSentences(args.original, args.sentence)
    /\ ret.before = Frac(9, 100)
    /\ FracGT(ret.value, ret.before)

(***************************************************************************)
(* generate_comprehensive_image_summary on its own                         *)
(***************************************************************************)
\* average hue and saturation of the HSV conversion of an 8-bit image: the
\* hue channel of OpenCV runs from 0 to 179, the saturation from 0 to 255
SummaryHues ==
    {0, 29, 30, 89, 90, 149, 150, 179}

SummarySaturations ==
    {0, 29, 30, 255}

SummarySizes ==
    {<<100, 100>>, <<300, 200>>, <<301, 200>>, <<200, 301>>, <<300, 100>>}

\* <<edge_density, text_density>>: general or banner, diagram, technical
\* diagram, document
SummaryDensities ==
    {<<100, 7>>, <<101, 7>>, <<200, 2>>, <<50, 20>>}

SummaryImages ==
    {Img(size[1], size[2], FALSE, d[1], d[2], 0, 0) :
        size \in SummarySizes, d \in SummaryDensities}
    \cup {Img(size[1], size[2], TRUE, d[1], d[2], hue, sat) :
             size \in {<<100, 100>>}, d \in SummaryDensities,
             hue \in SummaryHues, sat \in SummarySaturations}

\* a text of n two-letter words
RECURSIVE Words(_)
Words(n) ==
    IF n = 0 THEN <<>>
    ELSE IF n = 1 THEN Token(2)
    ELSE Token(2) \o <<" ">> \o Words(n - 1)

SummaryWordCounts ==
    {0, 1, 5, 6, 20, 21}

SummaryTexts ==
    {Words(n) : n \in SummaryWordCounts} \cup {<<" ", "\n">>}

SummaryInit ==
    /\ NoPipeline
    /\ args \in {[fn |-> "generate_comprehensive_image_summary", image |-> i,
                  extracted_text |-> t,
                  classification |-> classify_image_content(i, classify_fails),
                  fails |-> summary_fails] :
                     i \in SummaryImages, t \in SummaryTexts,
                     classify_fails \in BOOLEAN, summary_fails \in BOOLEAN}
    /\ ret = None

SummaryCall ==
    /\ ret = None
    /\ ret' = [value |-> generate_comprehensive_image_summary(
                             args.image, args.extracted_text, args.classification,
                             args.fails)]
    /\ UNCHANGED <<args, pipeline>>

SummarySpec ==
    SummaryInit /\ [][SummaryCall]_vars

\* the call returned from its try block
Composed ==
    ret # None /\ "error" \notin DOMAIN ret.value

\* C19: the narrative is the concatenation, in this order, of the colour +
\* content-type sentence, one orientation sentence, exactly one text-volume
\* sentence, and the technical-elements sentence, present iff edge_density
\* > 0.1.  The text-volume sentence is 'substantial' iff word_count > 20,
\* 'some' iff 5 < word_count <= 20, 'limited' iff the text is non-blank with
\* word_count <= 5, and 'No readable text' iff the text is blank.
C19_NarrativeInOrder ==
    Composed =>
        LET narrative == ret.value.summary
            text == args.extracted_text
            word_count == Len(Split(text))
            blank == \A i \in 1..Len(text) : text[i] \in {" ", "\n"}
            edge_density == IF "edge_density" \in DOMAIN args.classification
                            THEN args.classification.edge_density ELSE 0
        IN /\ Len(narrative) = IF edge_density > 100 THEN 4 ELSE 3
           /\ narrative[1] = "This appears to be a "
                                \o ret.value.image_properties.color_type \o " "
                                \o ContentDescription(
                                       ret.value.image_properties.content_type)
                                \o "."
           /\ narrative[2] \in {"The image has a landscape orientation.",
                                "The image has a portrait orientation.",
                                "The image has a square or near-square aspect ratio."}
           /\ narrative[3] =
                 IF blank THEN "No readable text was detected in the image."
                 ELSE IF word_count > 20
                 THEN "The image contains substantial text content ("
                         \o ToString(word_count) \o " words)."
                 ELSE IF word_count > 5
                 THEN "The image contains some text content ("
                         \o ToString(word_count) \o " words)."
                 ELSE "The image contains limited text content."
           /\ edge_density > 100 =>
                 narrative[4] = "The image contains technical elements or diagrams."

\* 21 words and an edge density above 0.1: four sentences, the third
\* 'substantial'
C19_Witness ==
    /\ Composed
    /\ Len(Split(args.extracted_text)) = 21
    /\ args.image.edge_density = 101
    /\ Len(ret.value.summary) = 4
    /\ ret.value.summary[3] =
          "The image contains substantial text content (21 words)."
    /\ ret.value.summary[4] = "The image contains technical elements or diagrams."

\* C20: for a colour image the colour description is a total function of
\* (average hue, average saturation): a saturation below 30 gives the
\* grayscale description whatever the hue; otherwise a hue in [0,30) or
\* [330,360] gives reddish, [30,90) yellowish/greenish, [90,150) greenish,
\* [150,210) cyan/blue, [210,270) bluish/purple, anything else magenta/pink;
\* exactly one description applies to every input.
C20_ColourFromHueAndSaturation ==
    Composed /\ args.image.is_color =>
        LET hue == args.image.avg_hue
            sat == args.image.avg_sat
            described == ret.value.image_properties.color_type
        IN /\ sat < 30 <=> described = "grayscale or monochrome"
           /\ sat >= 30 =>
                 /\ (hue >= 0 /\ hue < 30) \/ (hue >= 330 /\ hue <= 360)
                       <=> described = "reddish"
                 /\ hue >= 30 /\ hue < 90 <=> described = "yellowish/greenish"
                 /\ hue >= 90 /\ hue < 150 <=> described = "greenish"
                 /\ hue >= 150 /\ hue < 210 <=> described = "cyan/blue"
                 /\ hue >= 210 /\ hue < 270 <=> described = "bluish/purple"
                 /\ hue < 0 \/ (hue >= 270 /\ hue < 330) \/ hue > 360
                       <=> described = "magenta/pink"

\* a saturated image of average hue 150 is described as cyan/blue
C20_Witness ==
    /\ Composed
    /\ args.image.is_color
    /\ args.image.avg_hue = 150
    /\ args.image.avg_sat = 30
    /\ ret.value.image_properties.color_type = "cyan/blue"

(***************************************************************************)
(* Two calls of extract_text_from_image at once                            *)
(***************************************************************************)
\* every variable but the two module-level ones and the pair (args, ret)
call_locals ==
    <<pc, image_file, image_type, pytesseract_available, image, vision_results,
      classification, all_variants, ocr_configs, variant_idx, config_idx,
      best_result, last_ocr, extraction_results, extracted_text,
      extraction_confidence, ocr_config_used, processing_variant,
      summary_results, exc, result, classify_calls, ocr_calls>>

Callers ==
    {1, 2}

\* document (colour), technical diagram, general
ConcurrentImages ==
    {Img(2000, 1000, TRUE, 50, 20, 20, 80),
     Img(800, 600, FALSE, 200, 2, 0, 0),
     Img(100, 100, FALSE, 30, 7, 0, 0)}

\* the host: whether shutil.which finds tesseract, and the common locations
\* that exist; it does not change while the calls run
Hosts ==
    [which_found : BOOLEAN, existing : SUBSET HostLocations]

\* mutant of LookupWrites: the loop assigns each candidate before it tests
\* whether the candidate exists
LookupWritesEachCandidate(which_found, existing) ==
    IF which_found THEN <<>>
    ELSE SubSeq(CommonLocations, 1,
                IF FirstExisting(existing) = 0 THEN Len(CommonLocations)
                ELSE FirstExisting(existing))

\* the assignments to pytesseract.pytesseract.tesseract_cmd that the lookup
\* of lines 225-236 makes, in order
LookupWrites(which_found, existing) ==
    IF which_found \/ FirstExisting(existing) = 0 THEN <<>>
    ELSE <<CommonLocations[FirstExisting(existing)]>>

\* the lookup ends with raise Exception("Tesseract not found")
LookupRaises(which_found, existing) ==
    ~which_found /\ FirstExisting(existing) = 0

\* pytesseract can run the command it is configured with
CommandRuns(cmd, host) ==
    \/ cmd = "tesseract" /\ host.which_found
    \/ \E l \in host.existing : cmd = CommonLocations[l]

\* a reentrant engine: what it returns depends on the image alone, and it
\* raises when its command cannot be run
Engine(cmd, host, img) ==
    IF CommandRuns(cmd, host)
    THEN [raises |-> FALSE,
          text |-> IF img.is_color THEN OcrTextCatalog[3] ELSE OcrTextCatalog[2]]
    ELSE [raises |-> TRUE, text |-> EmptyText]

\* a reentrant Vision service: labels for a colour image, nothing otherwise
VisionOf(img) ==
    IF img.is_color
    THEN [raises |-> FALSE, text |-> EmptyText, labels |-> <<"Font", "Text">>,
          objects |-> <<>>, faces |-> 0]
    ELSE [raises |-> FALSE, text |-> EmptyText, labels |-> <<>>, objects |-> <<>>,
          faces |-> 0]

\* mutant of ClassifyFor: a caller that names the type is believed
ClassifyTrustsCaller(img, type, fails) ==
    IF type = "auto" THEN classify_image_content(img, fails)
    ELSE [classify_image_content(img, fails) EXCEPT !.image_type = type]

\* the classification computed for a call with image_type = type: both
\* branches of `if image_type == 'auto'` make the same call
ClassifyFor(img, type, fails) ==
    IF type = "auto" THEN classify_image_content(img, fails)
    ELSE classify_image_content(img, fails)

\* the locals of a call with argument image_type that has not run its
\* first statement
NewCallOfType(img, type) ==
    [image |-> img, image_type |-> type, pc |-> "open", written |-> 0, pair |-> 0,
     classification |-> None, all_variants |-> <<>>, ocr_configs |-> <<>>,
     best_result |-> None, extracted_text |-> EmptyText,
     extraction_confidence |-> Zero, ocr_config_used |-> None,
     processing_variant |-> NoneStr, result |-> None]

\* the locals of a call with the default image_type='auto'
NewCall(img) ==
    NewCallOfType(img, "auto")

\* one step of a call whose locals are `call`, with the module-level
\* tesseract_cmd = cmd and vision_client = client: the locals and the
\* tesseract_cmd after it.  `host` may also say that the classification,
\* a technique of the enhancement or the summary fails (classify_fails,
\* fail_at, summary_fails); without these fields nothing of the three fails
CallStep(call, cmd, client, host) ==
    IF call.pc = "open"
    THEN [call |-> [call EXCEPT !.pc = IF client THEN "vision" ELSE "classify"],
          cmd |-> cmd]
    ELSE IF call.pc = "vision"
    THEN LET vr == analyze_image_with_vision_api(client, VisionOf(call.image))
             cls == classify_image_content(call.image,
                                           Get(host, "classify_fails", FALSE))
             summary == generate_comprehensive_image_summary(
                            call.image, vr.text, cls,
                            Get(host, "summary_fails", FALSE))
         IN [call |-> IF VisionShortCircuits(vr)
                      THEN [call EXCEPT !.pc = "done", !.classification = cls,
                                        !.result = VisionResult(vr, cls, summary)]
                      ELSE [call EXCEPT !.pc = "classify"],
             cmd |-> cmd]
    ELSE IF call.pc = "classify"
    THEN LET cls == ClassifyFor(call.image, call.image_type,
                                Get(host, "classify_fails", FALSE))
         IN [call |-> [call EXCEPT
                          !.pc = "lookup",
                          !.classification = cls,
                          !.image_type = IF @ = "auto" THEN cls.image_type ELSE @],
             cmd |-> cmd]
    ELSE IF call.pc = "lookup"
    THEN LET writes == LookupWrites(host.which_found, host.existing)
         IN IF call.written < Len(writes)
            THEN [call |-> [call EXCEPT !.written = @ + 1],
                  cmd |-> writes[call.written + 1]]
            ELSE IF LookupRaises(host.which_found, host.existing)
            THEN [call |-> [call EXCEPT !.pc = "compose"], cmd |-> cmd]
            ELSE [call |-> [call EXCEPT
                               !.pc = "ocr",
                               !.pair = 1,
                               !.all_variants = enhance_image_quality(
                                                    call.classification.image_type,
                                                    Get(host, "fail_at", 0)),
                               !.ocr_configs = OcrConfigs(call.classification),
                               !.best_result = InitialBest],
                  cmd |-> cmd]
    ELSE IF call.pc = "ocr"
    THEN LET variant_no == (call.pair - 1) \div Len(call.ocr_configs)
             config == call.ocr_configs[((call.pair - 1) % Len(call.ocr_configs)) + 1]
             outcome == Engine(cmd, host, call.image)
             best == AfterOcr(call.best_result, outcome, config,
                              VariantName(variant_no))
             last_pair == call.pair
                             = (Len(call.all_variants) + 1) * Len(call.ocr_configs)
         IN [call |-> IF SearchReturns(best, outcome, last_pair)
                      THEN [call EXCEPT !.pc = "compose",
                                        !.best_result = best,
                                        !.extracted_text = best.text,
                                        !.extraction_confidence = best.confidence,
                                        !.ocr_config_used = best.config,
                                        !.processing_variant = best.variant]
                      ELSE [call EXCEPT !.pair = @ + 1, !.best_result = best],
             cmd |-> cmd]
    ELSE IF call.pc = "compose"
    THEN LET composed == generate_comprehensive_image_summary(
                             call.image, call.extracted_text, call.classification,
                             Get(host, "summary_fails", FALSE))
             summary == IF MinimalText(call.extracted_text)
                        THEN AddToSummary(composed, CautionClause)
                        ELSE composed
         IN [call |-> [call EXCEPT
                          !.pc = "done",
                          !.result = LocalResult(
                                         call.extracted_text, call.classification,
                                         summary, TRUE, call.extraction_confidence,
                                         call.ocr_config_used,
                                         call.processing_variant)],
             cmd |-> cmd]
    ELSE [call |-> call, cmd |-> cmd]

\* the result of a call that runs from its first statement to its return
\* with no other call in between
RECURSIVE RunFrom(_, _, _)
RunFrom(at, client, host) ==
    IF at.call.pc = "done" THEN at.call.result
    ELSE RunFrom(CallStep(at.call, at.cmd, client, host), client, host)

RunAlone(call, cmd, client, host) ==
    RunFrom([call |-> call, cmd |-> cmd], client, host)

ConcurrentInit ==
    /\ vision_client \in BOOLEAN
    /\ tesseract_cmd = "tesseract"
    /\ pc = "idle"
    /\ image_file = None
    /\ image_type = NoneStr
    /\ FreshCall
    /\ args \in {[host |-> h, calls |-> [c \in Callers |-> NewCall(imgs[c])],
                  alone |-> [c \in Callers |->
                                RunAlone(NewCall(imgs[c]), "tesseract",
                                         vision_client, h)],
                  overlapped |-> FALSE] :
                     h \in Hosts,
                     imgs \in {f \in [Callers -> ConcurrentImages] : f[1] # f[2]}}
    /\ ret = None

\* caller c runs its next step; the calls overlap when a step is taken
\* while the other call is under way
Interleave ==
    \E c \in Callers :
        LET other == CHOOSE o \in Callers : o # c
            after == CallStep(args.calls[c], tesseract_cmd, vision_client, args.host)
        IN /\ args.calls[c].pc # "done"
           /\ args' = [args EXCEPT
                          !.calls[c] = after.call,
                          !.overlapped = @ \/ args.calls[other].pc \notin {"open", "done"}]
           /\ tesseract_cmd' = after.cmd
           /\ UNCHANGED <<vision_client, ret, call_locals>>

ConcurrentSpec ==
    ConcurrentInit /\ [][Interleave]_vars

Returned(c) ==
    args.calls[c].pc = "done"

\* the result of caller c is the one its call gives when it runs alone,
\* from the module state the two calls started from (args.alone)
AsAlone(c) ==
    args.calls[c].result = args.alone[c]

\* C21 as stated: two concurrent invocations of extract_text_from_image on
\* different images share no mutable state, the module-level Tesseract
\* command path and vision client included: no step of a call changes
\* either, and every interleaving gives each call the result it has alone.
C21_NoSharedMutableState ==
    [][/\ tesseract_cmd' = tesseract_cmd
       /\ vision_client' = vision_client
       /\ \A c \in Callers : Returned(c)' => AsAlone(c)']_vars

\* C21 amended: two concurrent invocations on different images share one
\* piece of mutable module-level state, pytesseract's tesseract_cmd, which a
\* call overwrites when tesseract is not on the PATH, always with the first
\* existing common location; the vision client is only read.  On a host
\* that does not change, every interleaving gives each call the result it
\* has alone.
C21_SharedCommandSameResults ==
    [][/\ vision_client' = vision_client
       /\ tesseract_cmd' # tesseract_cmd =>
             /\ ~args.host.which_found
             /\ \E l \in args.host.existing :
                   /\ tesseract_cmd' = CommonLocations[l]
                   /\ \A m \in args.host.existing : l <= m
       /\ \A c \in Callers : Returned(c)' => AsAlone(c)']_vars

\* both calls ran the local search at the same time with tesseract found at
\* a common location only, and both returned what they return alone
C21_Witness ==
    /\ \A c \in Callers : Returned(c) /\ AsAlone(c)
    /\ args.overlapped
    /\ tesseract_cmd = "/usr/local/bin/tesseract"
    /\ \A c \in Callers :
          /\ args.calls[c].result.source = "tesseract_ocr"
          /\ args.calls[c].result.text # <<>>


(***************************************************************************)
(* upload_image: the refinement of the stored summary                      *)
(***************************************************************************)
\* needle is a substring of hay (Python's `needle in hay`)
Contains(needle, hay) ==
    \E i \in 1..(Len(hay) - Len(needle) + 1) :
        SubSeq(hay, i, i + Len(needle) - 1) = needle

\* 'Error'
ErrorWord ==
    <<"E", "r", "r", "o", "r">>

\* "Error generating Gemini summary: "
GeminiErrorPrefix ==
    <<"E", "r", "r", "o", "r", " ", "g", "e", "n", "e", "r", "a", "t", "i",
      "n", "g", " ", "G", "e", "m", "i", "n", "i", " ", "s", "u", "m", "m",
      "a", "r", "y", ":", " ">>

\* "Gemini API could not generate a summary."
GeminiNoSummary ==
    <<"G", "e", "m", "i", "n", "i", " ", "A", "P", "I", " ", "c", "o", "u",
      "l", "d", " ", "n", "o", "t", " ", "g", "e", "n", "e", "r", "a", "t",
      "e", " ", "a", " ", "s", "u", "m", "m", "a", "r", "y", ".">>

\* str(e) of an exception raised by genai.configure, GenerativeModel,
\* generate_content or response.text
GeminiExceptionMessages ==
    {
      <<"A", "P", "I", " ", "k", "e", "y", " ", "n", "o", "t", " ", "v",
        "a", "l", "i", "d">>,
      <<"4", "2", "9", " ", "q", "u", "o", "t", "a">>,
      <<>>}

\* response.text of an answer of the model: empty, two refined narratives,
\* and a narrative that quotes the word 'Error' from the image
GeminiTexts ==
    {<<>>,
     <<"-", " ", "W", "i", "d", "e", " ", "l", "a", "y", "o", "u", "t",
       "\n", "T", "a", "k", "e", "a", "w", "a", "y", ":", " ", "a", " ",
       "d", "o", "c", "u", "m", "e", "n", "t">>,
     <<"-", " ", "U", "n", "k", "n", "o", "w", "n">>,
     <<"-", " ", "T", "e", "x", "t", " ", "r", "e", "a", "d", "s", " ",
       "\"", "E", "r", "r", "o", "r", " ", "4", "0", "4", "\"">>}

\* what the Gemini API does when get_gemini_summary calls it
GeminiOutcomes ==
    {[raises |-> TRUE, message |-> m, text |-> <<>>] : m \in GeminiExceptionMessages}
    \cup {[raises |-> FALSE, message |-> <<>>, text |-> t] : t \in GeminiTexts}

get_gemini_summary(outcome) ==
    IF outcome.raises
    THEN [gemini_summary |-> GeminiErrorPrefix \o outcome.message]
    ELSE [gemini_summary |-> IF outcome.text # <<>> THEN outcome.text
                             ELSE GeminiNoSummary]

\* image_doc.summary after the try block of lines 545-589: the heuristic
\* summary stored at line 507, or the refined text
RefinedSummary(summary, outcome) ==
    LET refined == get_gemini_summary(outcome).gemini_summary
    IN IF refined # <<>> /\ ~Contains(ErrorWord, refined) THEN refined
       ELSE summary

\* result['summary'] of successful local results of extract_text_from_image
HeuristicSummaries ==
    {(IF MinimalText(t)
      THEN AddToSummary(generate_comprehensive_image_summary(
                            i, t, classify_image_content(i, FALSE), FALSE),
                        CautionClause)
      ELSE generate_comprehensive_image_summary(
               i, t, classify_image_content(i, FALSE), FALSE)).summary :
        i \in ConcurrentImages, t \in SummaryTexts}

RefineInit ==
    /\ NoPipeline
    /\ args \in {[fn |-> "upload_image", summary |-> s, gemini |-> g] :
                    s \in HeuristicSummaries, g \in GeminiOutcomes}
    /\ ret = None

\* upload_image from line 507 to image_doc.save()
UploadImage ==
    /\ ret = None
    /\ ret' = [value |-> [summary |-> RefinedSummary(args.summary, args.gemini),
                          saved |-> TRUE]]
    /\ UNCHANGED <<args, pipeline>>

RefineSpec ==
    RefineInit /\ [][UploadImage]_vars

\* get_gemini_summary failed: an exception, an API error, or an empty
\* response of the model
GeminiFailed ==
    args.gemini.raises \/ args.gemini.text = <<>>

\* C22: in upload_image, when get_gemini_summary fails in any way (an
\* exception, an API error, or an empty model response), the failure is
\* swallowed and the stored image summary remains the heuristic-composed
\* summary unchanged; it is replaced only by a genuine refined narrative.
C22_FailedRefinementKeepsSummary ==
    ret # None =>
        /\ GeminiFailed => ret.value.summary = args.summary
        /\ ret.value.summary # args.summary =>
              ~GeminiFailed /\ ret.value.summary = args.gemini.text

(***************************************************************************)
(* A failed classification on the local path                               *)
(***************************************************************************)
\* the classification of the call under way is the failure result
ClassificationFailed ==
    classification # None /\ "error" \in DOMAIN classification

\* the call returned from the local path (lines 624-637)
ReturnedLocal ==
    pc = "done" /\ result # None /\ "ocr_config" \in DOMAIN result

\* C23: classify_image_content never raises: on an internal error it returns
\* a result tagged 'error' with image_type 'general' and confidence 0.3;
\* extract_text_from_image then still completes the local path: the search
\* runs with the catalog of 3 configurations, the composed summary has
\* edge_density and text_density defaulted to 0, and the call returns
\* success = True.
C23_FailedClassificationCompletes ==
    ClassificationFailed =>
        /\ classification.image_type = "general"
        /\ classification.confidence = Frac(3, 10)
        /\ pc \notin {"recover", "raised"}
        /\ pc = "ocr" => ocr_configs = BaseConfigs
        /\ ReturnedLocal =>
              /\ result.success
              /\ result.classification = classification
              /\ "image_properties" \in DOMAIN result.analysis =>
                    /\ result.analysis.image_properties.edge_density = 0
                    /\ result.analysis.image_properties.text_density = 0
                    /\ result.analysis.image_properties.content_type = "general"

\* the classification of a diagram failed; the search read a text with three
\* configurations and the result is a success with densities 0
C23_Witness ==
    /\ ClassificationFailed
    /\ ReturnedLocal
    /\ image.edge_density > 150
    /\ result.success
    /\ result.source = "tesseract_ocr"
    /\ result.text # EmptyText
    /\ ocr_configs = BaseConfigs
    /\ Len(ocr_calls) = (Len(all_variants) + 1) * 3
    /\ result.analysis.image_properties.edge_density = 0
    /\ result.analysis.image_properties.text_density = 0

(***************************************************************************)
(* The retained best of the search                                         *)
(***************************************************************************)
\* C24: during the search the confidence of the retained best never goes
\* down; the retained best is replaced only by a candidate whose score is
\* strictly greater than the retained confidence, and a later candidate of
\* equal score never replaces it.
C24_BestOnlyStrictlyImproves ==
    [][pc = "ocr" =>
          /\ FracGE(best_result'.confidence, best_result.confidence)
          /\ best_result' # best_result =>
                /\ ~last_ocr'.raises
                /\ FracGT(TextQuality[last_ocr'.text], best_result.confidence)
                /\ best_result' =
                       [text |-> last_ocr'.text,
                        confidence |-> TextQuality[last_ocr'.text],
                        config |-> ocr_configs[config_idx],
                        variant |-> VariantName(variant_idx)]
          /\ /\ ~last_ocr'.raises
             /\ TextQuality[last_ocr'.text] = best_result.confidence
             => best_result' = best_result]_vars

\* a later pair returned a text that scores exactly the retained confidence,
\* above 0, and the retained best is still the one of the earlier pair
C24_Witness ==
    /\ pc = "ocr"
    /\ ocr_calls # <<>>
    /\ ~last_ocr.raises
    /\ TextQuality[last_ocr.text] = best_result.confidence
    /\ FracGT(best_result.confidence, Zero)
    /\ best_result.variant = "original"
    /\ ocr_calls[Len(ocr_calls)].variant = 1

(***************************************************************************)
(* The quality score and the search together                               *)
(***************************************************************************)
\* a text of n words of 8 letters, no terminator
RECURSIVE LongWords(_)
LongWords(n) ==
    IF n = 1 THEN Token(8) ELSE Token(8) \o <<" ">> \o LongWords(n - 1)

\* word_score, length_score and sentence_score are all 1 from 20 words of
\* 8 letters in one sentence on
FullScoreWords ==
    20

\* calculate_text_quality called on its own, or a call of
\* extract_text_from_image
QualitySearchInit ==
    \/ Init
    \/ /\ NoPipeline
       /\ args \in {[fn |-> "calculate_text_quality", text |-> t] :
                       t \in QualityTexts \cup {LongWords(FullScoreWords)}}
       /\ ret = None

QualitySearchNext ==
    \/ args = None /\ Next
    \/ args # None /\ QualityCall
    \/ args # None /\ QualityAfterAppend

QualitySearchSpec ==
    QualitySearchInit /\ [][QualitySearchNext]_vars

\* the largest value of 0.3 + 0.2 + 0.2 times (1 - 0)
QualityCeiling ==
    Frac(7, 10)

\* C25: calculate_text_quality is at most 0.7 for every text, so the early
\* exit of the search (retained confidence >= 0.75) is never satisfied:
\* every search in which the Tesseract command is found runs all
\* (len(variants) + 1) x len(configs) pairs before it returns.
C25_CeilingBelowEarlyExit ==
    /\ args # None /\ ret # None => FracLE(ret.value, QualityCeiling)
    /\ pc = "ocr" /\ last_ocr # None /\ ~last_ocr.raises =>
          FracLE(TextQuality[last_ocr.text], QualityCeiling)
    /\ pc \in {"ocr", "compose", "done"} /\ best_result # None =>
          ~EarlyExit(best_result)
    /\ pc \in {"compose", "done"} /\ ocr_calls # <<>> => Exhausted

\* 20 words of 8 letters in one sentence score exactly 0.7
QualityCeilingAttained ==
    /\ args # None
    /\ ret # None
    /\ args.text = LongWords(FullScoreWords)
    /\ ret.value = QualityCeiling
    /\ FracGT(EarlyExitThreshold, ret.value)

\* a search of 5 images and 5 configurations whose first call returned a
\* text that scores above 0, and whose every later call returned too, ran
\* all 25 pairs
C25_Witness ==
    /\ pc = "compose"
    /\ tesseract_cmd # "tesseract"
    /\ Len(ocr_calls) = 25
    /\ ~last_ocr.raises
    /\ FracGT(best_result.confidence, Zero)
    /\ best_result.variant = "original"
    /\ best_result.config = ocr_configs[1]


\* what extract_text_with_multiple_techniques has found or returned
SearchResults ==
    (IF best_result # None THEN {best_result} ELSE {})
    \cup (IF extraction_results # None THEN {extraction_results} ELSE {})

\* C26: calculate_text_quality is strictly positive for every text with at
\* least one non-whitespace token; consequently, in every result of
\* extract_text_with_multiple_techniques the text is empty or
\* whitespace-only iff the confidence is 0, and the config is None iff the
\* confidence is 0.
C26_PositiveUnlessBlank ==
    /\ args # None /\ ret # None /\ WordCount(args.text) > 0 =>
          FracGT(ret.value, Zero)
    /\ \A found \in SearchResults :
          /\ Blank(found.text) <=> found.confidence = Zero
          /\ Get(found, "config", None) = None <=> found.confidence = Zero

\* the search returned a text, its score above 0 and its configuration,
\* after a last call that read nothing
C26_Witness ==
    /\ pc = "compose"
    /\ Exhausted
    /\ ~last_ocr.raises
    /\ last_ocr.text = EmptyText
    /\ ~Blank(extraction_results.text)
    /\ FracGT(extraction_results.confidence, Zero)
    /\ extraction_results.config # None

(***************************************************************************)
(* The search loop of extract_text_with_multiple_techniques on its own     *)
(***************************************************************************)
\* the (variant_idx, config) pairs in the order the two loops visit them
SearchPairs(variants, configs) ==
    [k \in 1..((Len(variants) + 1) * Len(configs)) |->
        [variant |-> (k - 1) \div Len(configs),
         config_idx |-> ((k - 1) % Len(configs)) + 1,
         config |-> configs[((k - 1) % Len(configs)) + 1]]]

\* the loops from pair k on, the engine answering pair j with engine[j]
RECURSIVE SearchFrom(_, _, _, _)
SearchFrom(best, k, pairs, engine) ==
    IF k > Len(pairs) THEN best
    ELSE LET after == AfterOcr(best, engine[k], pairs[k].config,
                               VariantName(pairs[k].variant))
         IN IF SearchReturns(after, engine[k], k = Len(pairs)) THEN after
            ELSE SearchFrom(after, k + 1, pairs, engine)

\* lines 256-294
SearchLoop(variants, configs, engine) ==
    SearchFrom(InitialBest, 1, SearchPairs(variants, configs), engine)

\* the lists a search can be given: the variants of a failed and of a
\* successful enhancement, the catalog of 3 and of 5 configurations
SearchVariants ==
    {enhance_image_quality("text", 1), enhance_image_quality("text", 0)}

SearchCatalogs ==
    {BaseConfigs, BaseConfigs \o TechnicalConfigs}

\* every way the engine can answer the 6 pairs of the smallest search
AnyEngines ==
    [1..6 -> OcrOutcomes]

\* configurations that make the engine raise, by position in the catalog
FailingConfigs ==
    {{}, {1}, {2, 4}, {1, 2, 3, 4, 5}}

\* engines that read one text per image and raise on some configurations
EnginesByImage(variants, configs) ==
    {[k \in 1..((Len(variants) + 1) * Len(configs)) |->
         IF SearchPairs(variants, configs)[k].config_idx \in failing
         THEN [raises |-> TRUE, text |-> EmptyText]
         ELSE [raises |-> FALSE,
               text |-> texts[SearchPairs(variants, configs)[k].variant]]] :
        texts \in [0..Len(variants) -> OcrTexts], failing \in FailingConfigs}

SearchInit ==
    /\ NoPipeline
    /\ args \in {[fn |-> "extract_text_with_multiple_techniques",
                  all_variants |-> v, ocr_configs |-> c, engine |-> e] :
                     v \in {enhance_image_quality("text", 1)},
                     c \in {BaseConfigs}, e \in AnyEngines}
             \cup UNION {{[fn |-> "extract_text_with_multiple_techniques",
                           all_variants |-> v, ocr_configs |-> c, engine |-> e] :
                             e \in EnginesByImage(v, c)} :
                            v \in SearchVariants, c \in SearchCatalogs}
    /\ ret = None

SearchCall ==
    /\ ret = None
    /\ ret' = [value |-> SearchLoop(args.all_variants, args.ocr_configs,
                                    args.engine)]
    /\ UNCHANGED <<args, pipeline>>

SearchSpec ==
    SearchInit /\ [][SearchCall]_vars

\* the pairs whose OCR call returned, and the score of such a pair
Evaluated ==
    {k \in 1..Len(args.engine) : ~args.engine[k].raises}

PairScore(k) ==
    TextQuality[args.engine[k].text]

\* pair k has the largest score of the evaluated pairs, and no earlier pair
\* has it
FirstOfMaximum(k) ==
    /\ k \in Evaluated
    /\ \A j \in Evaluated : FracLE(PairScore(j), PairScore(k))
    /\ \A j \in Evaluated : j < k => PairScore(j) # PairScore(k)

\* the result that pair k gives, labelled as the claim says
PairResult(k) ==
    LET pair == SearchPairs(args.all_variants, args.ocr_configs)[k]
    IN [text |-> args.engine[k].text,
        confidence |-> PairScore(k),
        config |-> pair.config,
        variant |-> IF pair.variant = 0 THEN "original"
                    ELSE <<"variant_1", "variant_2", "variant_3",
                           "variant_4">>[pair.variant]]

\* C27 as stated: when the search runs to exhaustion, the returned result is
\* the first pair, in variant-major then config order, whose score equals
\* the maximum score over all successfully evaluated pairs; its variant
\* label is 'original' for index 0 and 'variant_<i>' for index i in 1..4,
\* never a technique name.
C27_FirstPairOfMaximumScore ==
    ret # None /\ Evaluated # {} =>
        /\ \E k \in Evaluated : FirstOfMaximum(k) /\ ret.value = PairResult(k)
        /\ ret.value.variant \notin TechniqueNames

\* C27 amended: when the search runs to exhaustion and some successfully
\* evaluated pair scored above 0, the returned result is the first pair, in
\* variant-major then config order, whose score equals the maximum score
\* over all successfully evaluated pairs, labelled 'original' for index 0
\* and 'variant_<i>' for index i in 1..4, never with a technique name.  When
\* no pair was evaluated successfully or every evaluated pair scored 0, the
\* result is no pair but the initial one: text '', confidence 0, config
\* None, variant 'original'.
C27_FirstPairOfPositiveMaximum ==
    ret # None =>
        /\ IF \E k \in Evaluated : FracGT(PairScore(k), Zero)
           THEN \E k \in Evaluated : FirstOfMaximum(k) /\ ret.value = PairResult(k)
           ELSE ret.value = [text |-> <<>>, confidence |-> Frac(0, 1),
                             config |-> None, variant |-> "original"]
        /\ ret.value.variant \notin TechniqueNames

\* 25 pairs: the best text was read from the second variant on, the first
\* configuration raised, and the result is the pair of variant 2 with the
\* second configuration
C27_Witness ==
    /\ ret # None
    /\ Len(args.engine) = 25
    /\ args.engine[1].raises
    /\ ~args.engine[2].raises
    /\ \A k \in Evaluated : k >= 12 => PairScore(k) = PairScore(12)
    /\ \A k \in Evaluated : k < 12 => PairScore(k) # PairScore(12)
    /\ FirstOfMaximum(12)
    /\ ret.value.variant = "variant_2"
    /\ ret.value.config = BaseConfigs[2]
    /\ ret.value.text = args.engine[12].text

(***************************************************************************)
(* extract_text_from_image with and without a named image type             *)
(***************************************************************************)
\* the values the docstring of extract_text_from_image lists for image_type
\* besides 'auto', and one it does not list
NamedImageTypes ==
    {"general", "technical", "document", "diagram"}

\* the behaviour of everything outside the function during one call
Environments ==
    [which_found : BOOLEAN, existing : {{}, {2}, {1, 3}},
     classify_fails : BOOLEAN, summary_fails : BOOLEAN, fail_at : {0, 1}]

TypeInit ==
    /\ vision_client \in BOOLEAN
    /\ tesseract_cmd = "tesseract"
    /\ pc = "idle"
    /\ image_file = None
    /\ image_type = NoneStr
    /\ FreshCall
    /\ args \in {[fn |-> "extract_text_from_image", image |-> i, image_type |-> t,
                  host |-> h] :
                     i \in ConcurrentImages, t \in NamedImageTypes,
                     h \in Environments}
    /\ ret = None

\* the same image in the same environment, once with image_type='auto' and
\* once with the named type
TypeCalls ==
    /\ ret = None
    /\ ret' = [auto |-> RunAlone(NewCallOfType(args.image, "auto"),
                                 tesseract_cmd, vision_client, args.host),
               named |-> RunAlone(NewCallOfType(args.image, args.image_type),
                                  tesseract_cmd, vision_client, args.host)]
    /\ UNCHANGED <<args, pipeline>>

TypeSpec ==
    TypeInit /\ [][TypeCalls]_vars

\* C28: the image_type argument of extract_text_from_image has no effect on
\* the result: for the same image and the same behaviour of the external
\* capabilities, the call with 'auto' and the call with any other value
\* return identical results.
C28_ImageTypeHasNoEffect ==
    ret # None => ret.named = ret.auto

\* an image that classifies as technical_diagram, passed as 'document': the
\* local search ran with 5 configurations and both calls returned the same
\* result, classified technical_diagram
C28_Witness ==
    /\ ret # None
    /\ args.image_type = "document"
    /\ ret.named = ret.auto
    /\ ret.named.source = "tesseract_ocr"
    /\ ret.named.classification.image_type = "technical_diagram"
    /\ ret.named.ocr_config # None

(***************************************************************************)
(* The enhancement type and the variants                                   *)
(***************************************************************************)
\* the positions of `name` in the list of techniques
PositionsOf(name, techniques) ==
    {i \in 1..Len(techniques) : techniques[i] = name}

\* C29: the variant list returned by enhance_image_quality does not depend
\* on enhancement_type: the only type-dependent technique (edge_enhanced,
\* for 'technical' and 'auto') is appended at position 6 and always removed
\* by the truncation to 4, so for the same image and no technique failure
\* every enhancement_type yields the same 4 variants.
C29_TypeIndependentVariants ==
    ret # None /\ args.failing = {} =>
        /\ \A e \in EnhancementTypes : enhance_image_quality(e, 0) = ret.value
        /\ Len(ret.value) = 4
        /\ PositionsOf("edge_enhanced", ret.value) = {}
        /\ PositionsOf("edge_enhanced", Techniques(args.enhancement_type))
              = IF args.enhancement_type \in {"technical", "auto"} THEN {6} ELSE {}
        /\ \A e \in EnhancementTypes :
              \A i \in 1..Len(Techniques(e)) :
                  Techniques(e)[i] # "edge_enhanced" =>
                      \E j \in 1..Len(Techniques("text")) :
                          Techniques("text")[j] = Techniques(e)[i]

\* enhancement_type 'auto', nothing failed: 8 techniques ran, the sixth was
\* the edge enhancement, and the 4 variants are those of 'text'
C29_Witness ==
    /\ ret # None
    /\ args.failing = {}
    /\ args.enhancement_type = "auto"
    /\ Len(Techniques("auto")) = 8
    /\ Techniques("auto")[6] = "edge_enhanced"
    /\ Len(Techniques("text")) = 7
    /\ ret.value = enhance_image_quality("text", 0)

(***************************************************************************)
(* The order of the first two classification rules                         *)
(***************************************************************************)
\* the conditions of rule 1 and of rule 2 as the claim states them
RuleOne(edge_density, text_density) ==
    edge_density > 150 /\ text_density < 5

RuleTwo(text_density) ==
    text_density > 10

\* the cascade with rule 2 evaluated before rule 1
RuleTwoFirst(edge_density, text_density, aspect_ratio) ==
    IF RuleTwo(text_density)
    THEN <<"document", Frac(9, 10)>>
    ELSE IF RuleOne(edge_density, text_density)
    THEN <<"technical_diagram", Frac(8, 10)>>
    ELSE IF edge_density > 100
    THEN <<"diagram", Frac(7, 10)>>
    ELSE IF FracGT(aspect_ratio, Frac(2, 1)) \/ FracGT(Frac(1, 2), aspect_ratio)
    THEN <<"banner_or_poster", Frac(6, 10)>>
    ELSE <<"general", Frac(5, 10)>>

\* classify_image_content returned from its try block
Classified ==
    classification # None /\ "error" \notin DOMAIN classification

\* C30: in classify_image_content the conditions of rule 1 (edge_density >
\* 0.15 and text_density < 0.005) and rule 2 (text_density > 0.01) are
\* mutually exclusive, so evaluating rule 2 before rule 1 yields the same
\* classification for every input; in particular an image with edge_density
\* > 0.15 and text_density > 0.01 is classified document, not
\* technical_diagram.
C30_RuleOrderImmaterial ==
    Classified =>
        /\ ~(RuleOne(classification.edge_density, classification.text_density)
                /\ RuleTwo(classification.text_density))
        /\ <<classification.image_type, classification.confidence>>
              = RuleTwoFirst(classification.edge_density,
                             classification.text_density,
                             classification.aspect_ratio)
        /\ RuleOne(classification.edge_density, classification.text_density)
              <=> classification.image_type = "technical_diagram"
        /\ RuleTwo(classification.text_density)
              <=> classification.image_type = "document"
        /\ classification.edge_density > 150 /\ classification.text_density > 10
              => classification.image_type = "document"

\* an image with edge density 0.3 and text density 0.011 is a document
C30_Witness ==
    /\ Classified
    /\ image.edge_density = 300
    /\ image.text_density = 11
    /\ classification.edge_density = 300
    /\ classification.image_type = "document"
    /\ classification.confidence = Frac(9, 10)
=============================================================================
